---------------------------- MODULE Spec2Model ----------------------------
(***************************************************************************)
(* A model of the anomaly engine of synaptecltd/emulator: the timing state *)
(* machine shared by trend and spike anomalies, the two stepAnomaly        *)
(* variants, the shaping functions they call and their registry, the      *)
(* anomaly Container, the Emulator with its random generator, and the      *)
(* phase-angle wrap of the three-phase emulation.                          *)
(*                                                                         *)
(* Numbers.  Go float64 times (Ts, startDelay, duration) are integers in   *)
(* seconds; int(x/y) is IntDiv, which truncates toward zero as the Go      *)
(* conversion does.  Signal values, probabilities and random draws are     *)
(* exact rationals [n, d] in lowest terms with d > 0, so that equal values *)
(* are equal states; the rounding of IEEE arithmetic is not modelled.      *)
(* The random source is a nondeterministic choice of the value of every    *)
(* draw that a step consumes.                                              *)
(***************************************************************************)
EXTENDS Integers, Sequences, FiniteSets, TLC

VARIABLES
    heap,       \* the anomaly objects constructed so far (a pointer is an index)
    container,  \* the Container: a sequence of pointers into heap
    op,         \* the last operation performed and its inputs
    ret,        \* what the last operation returned and consumed
    calls,      \* number of ticks performed so far
    ts,         \* the tick period of a constant-period run (0: none chosen)
    previousValue,  \* the walk value captured by the closure randomWalk
    solo,       \* history: the walk value the first walker would hold had
                \* no other caller of randomWalk run in between
    emu,        \* the Emulator instances of the process
    pAngle      \* ThreePhaseEmulation.pAngle, in units of pi

vars == <<heap, container, op, ret, calls, ts, previousValue, solo, emu, pAngle>>

\* The state outside the anomaly package
rest == <<previousValue, solo, emu, pAngle>>

----------------------------------------------------------------------------
(* Bounds of the model *)

MaxCalls == 16
MaxDuration == 5
MaxDelay == 3
MaxRepeats == 2
MaxTs == 2
MaxTicks == 6
MaxLen == 2
MaxSteps == 3
MaxOps == 3
MaxWalk == 26
MaxWraps == 5
MaxPairTicks == 8
MaxTime == 6
MaxPeriod == 4
MaxFuncCalls == 2
MaxThreeTicks == 5
MaxFaultTicks == 6
MaxStepCalls == 5
MaxShareSteps == 6

----------------------------------------------------------------------------
(* Exact rational arithmetic standing for float64 *)

AbsInt(x) == IF x < 0 THEN -x ELSE x

RECURSIVE GCD(_, _)
GCD(a, b) == IF b = 0 THEN a ELSE GCD(b, a % b)

\* n/d in lowest terms, d > 0.  d = 0 does not occur: every division of the
\* model is guarded by the code's own validation (see linearRamp).
Rat(n, d) ==
    LET g == GCD(AbsInt(n), AbsInt(d))
        s == IF d < 0 THEN -1 ELSE 1
    IN  [n |-> (s * n) \div g, d |-> (s * d) \div g]

RInt(i) == [n |-> i, d |-> 1]
Zero == RInt(0)
RAdd(x, y) == Rat(x.n * y.d + y.n * x.d, x.d * y.d)
RNeg(x) == [n |-> -x.n, d |-> x.d]
RSub(x, y) == RAdd(x, RNeg(y))
RMul(x, y) == Rat(x.n * y.n, x.d * y.d)
RAbs(x) == [n |-> AbsInt(x.n), d |-> x.d]
RLess(x, y) == x.n * y.d < y.n * x.d
RGreater(x, y) == RLess(y, x)

\* Go's int(x/y) for y > 0: truncation toward zero.
IntDiv(x, y) == IF x >= 0 THEN x \div y ELSE -((-x) \div y)

----------------------------------------------------------------------------
(* mathfuncs: the shaping functions y = f(t, A, T) and their registry.     *)
(* t and T are times in seconds, A is a rational amplitude.                *)

\* y = (A/T)*t
linearRamp(t, A, T) == RMul(Rat(A.n, A.d * T), RInt(t))

\* A*(t/T)*(t/T)
parabolicRamp(t, A, T) == RMul(RMul(A, Rat(t, T)), Rat(t, T))

\* math.Mod(t, T) for t >= 0: the remainder has the sign of t
FMod(t, T) == t % AbsInt(T)

\* stepFunction with the half period counted as low
stepFunction_HalfLow(t, A, T) == IF 2 * FMod(t, T) <= T THEN Zero ELSE A

\* 0 while math.Mod(t, T) < T/2, else A
stepFunction(t, A, T) == IF 2 * FMod(t, T) < T THEN Zero ELSE A

\* The width of a spike of impulseTrain: one microsecond
spikeWidth == Rat(1, 1000000)

\* A while math.Mod(t, T) < spikeWidth, else 0
impulseTrain(t, A, T) ==
    IF RLess(RInt(FMod(t, T)), spikeWidth) THEN A ELSE Zero

\* A, whatever t and T
flat(t, A, T) == A

\* A * (rand.Float64()*2 - 1), u the draw from the process-wide source
randomNoise(A, u) == RMul(A, RSub(RMul(u, RInt(2)), RInt(1)))

\* rand.NormFloat64() * A, n the draw from the process-wide source
gaussianNoise(A, n) == RMul(n, A)

\* The divisor of the largest step of the random walk
stepFactor == 20

RMin(x, y) == IF RLess(x, y) THEN x ELSE y
RMax(x, y) == IF RLess(x, y) THEN y ELSE x

\* randomWalk without the clamp to [-A, A]
randomWalk_NoClamp(prev, t, A, T, u) ==
    IF t # 0
    THEN LET step == RMul(Rat(A.n, A.d * stepFactor),
                          RSub(RMul(u, RInt(2)), RInt(1)))
         IN  [y |-> RAdd(prev, step), previousValue |-> RAdd(prev, step)]
    ELSE [y |-> prev, previousValue |-> prev]

\* The closure randomWalk: prev is the captured previousValue before the
\* call, u the draw from the process-wide source; the result holds the
\* value returned and the captured value after the call.  A call with
\* t = 0 returns the captured value as it is.
randomWalk(prev, t, A, T, u) ==
    IF t # 0
    THEN LET step == RMul(Rat(A.n, A.d * stepFactor),
                          RSub(RMul(u, RInt(2)), RInt(1)))
             proposedValue == RAdd(prev, step)
             held == RMin(RMax(proposedValue, RNeg(A)), A)
         IN  [y |-> held, previousValue |-> held]
    ELSE [y |-> prev, previousValue |-> prev]

\* The keys of the map mathsFunctions.
mathsFunctions ==
    {"linear", "sine", "cosine", "exponential", "exponential_full",
     "exponential_decay", "exponential_decay_full", "parabolic", "step",
     "Lstep", "square", "sawtooth", "impulse", "impulse_varying",
     "random_noise", "gaussian_noise", "exponential_noise", "random_walk",
     "flat", "warmup_sine"}

\* The lookup: an error for every name that is not a key of the map (the
\* empty name included).
GetTrendFunctionFromName(name) ==
    IF name \in mathsFunctions THEN [err |-> FALSE, fn |-> name]
    ELSE [err |-> TRUE, fn |-> ""]

\* A call through a MathsFunction value; fn is the name it was looked up by.
Apply(fn, t, A, T) ==
    CASE fn = "linear" -> linearRamp(t, A, T)
      [] fn = "parabolic" -> parabolicRamp(t, A, T)
      [] fn = "step" -> stepFunction(t, A, T)
      [] fn = "impulse" -> impulseTrain(t, A, T)
      [] fn = "flat" -> flat(t, A, T)

\* A call through a MathsFunction value that may use the state of the
\* package mathfuncs and the process-wide random source: env holds the
\* captured walk value (previousValue) and the draws the process-wide source
\* gives to this call (u uniform, norm normal).  The result holds the value
\* returned and the walk value after the call.
Call(fn, t, A, T, env) ==
    CASE fn = "random_walk" -> randomWalk(env.previousValue, t, A, T, env.u)
      [] fn = "random_noise" ->
            [y |-> randomNoise(A, env.u), previousValue |-> env.previousValue]
      [] fn = "gaussian_noise" ->
            [y |-> gaussianNoise(A, env.norm),
             previousValue |-> env.previousValue]
      [] OTHER ->
            [y |-> Apply(fn, t, A, T), previousValue |-> env.previousValue]

----------------------------------------------------------------------------
(* anomaly: AnomalyBase, trendAnomaly and spikeAnomaly.  One record type   *)
(* holds the fields of both variants; typeName tells them apart.  A nil    *)
(* function field is the empty function name.                              *)

\* The zero value of the struct, as &trendAnomaly{} and &spikeAnomaly{} give it.
ZeroAnomaly ==
    [name |-> "", typeName |-> "", startDelay |-> 0, duration |-> 0,
     Repeats |-> 0, Off |-> FALSE,
     isAnomalyActive |-> FALSE, startDelayIndex |-> 0,
     elapsedActivatedIndex |-> 0, elapsedActivatedTime |-> 0,
     countRepeats |-> 0,
     Magnitude |-> Zero, magFuncName |-> "",
     InvertTrend |-> FALSE, ReverseTrend |-> FALSE, periodDuration |-> 0,
     VaryMagnitude |-> FALSE, spikeSign |-> Zero,
     probability |-> Zero, probFuncName |-> ""]

GetName(a) == a.name
GetTypeAsString(a) == a.typeName

\* AnomalyBase.SetStartDelay
SetStartDelay(a, startDelay) ==
    IF startDelay < 0 THEN [err |-> TRUE, a |-> a]
    ELSE [err |-> FALSE, a |-> [a EXCEPT !.startDelay = startDelay]]

\* AnomalyBase.SetFunctionByName, for the field pair magFuncName/magFunction
SetMagFunctionByNameBase(a, name) ==
    IF name = "" THEN [err |-> FALSE, a |-> [a EXCEPT !.magFuncName = ""]]
    ELSE IF GetTrendFunctionFromName(name).err THEN [err |-> TRUE, a |-> a]
    ELSE [err |-> FALSE, a |-> [a EXCEPT !.magFuncName = name]]

\* AnomalyBase.SetFunctionByName, for the field pair probFuncName/probFunction
SetProbFunctionByName(a, name) ==
    IF name = "" THEN [err |-> FALSE, a |-> [a EXCEPT !.probFuncName = ""]]
    ELSE IF GetTrendFunctionFromName(name).err THEN [err |-> TRUE, a |-> a]
    ELSE [err |-> FALSE, a |-> [a EXCEPT !.probFuncName = name]]

\* SetDuration of a trend without the switch-off at 0
TrendSetDuration_NoOff(a, duration) ==
    IF duration < 0 THEN [err |-> TRUE, a |-> a]
    ELSE [err |-> FALSE, a |-> [a EXCEPT !.duration = duration]]

\* trendAnomaly.SetDuration: negative is an error, 0 switches the trend off
TrendSetDuration(a, duration) ==
    IF duration < 0 THEN [err |-> TRUE, a |-> a]
    ELSE [err |-> FALSE,
          a |-> [a EXCEPT !.Off = IF duration = 0 THEN TRUE ELSE @,
                          !.duration = duration]]

\* trendAnomaly.SetPeriodDuration: 0 defers to the duration
SetPeriodDuration(a, periodDuration) ==
    IF periodDuration < 0 THEN [err |-> TRUE, a |-> a]
    ELSE IF periodDuration = 0
         THEN [err |-> FALSE, a |-> [a EXCEPT !.periodDuration = a.duration]]
    ELSE [err |-> FALSE, a |-> [a EXCEPT !.periodDuration = periodDuration]]

\* SetMagFunctionByName of a trend without the default for the empty name
TrendSetMagFunctionByName_NoDefault(a, name) ==
    SetMagFunctionByNameBase(a, name)

\* trendAnomaly.SetMagFunctionByName: the empty name means "linear"
TrendSetMagFunctionByName(a, name) ==
    SetMagFunctionByNameBase(a, IF name = "" THEN "linear" ELSE name)

\* NewTrendAnomaly: the plain fields first, then the checking setters in the
\* order duration, start delay, function, period; the first error wins.
NewTrendAnomaly(params) ==
    LET a0 == [ZeroAnomaly EXCEPT !.name = params.Name,
                                  !.typeName = "trend",
                                  !.Magnitude = params.Magnitude,
                                  !.Repeats = params.Repeats,
                                  !.InvertTrend = params.InvertTrend,
                                  !.ReverseTrend = params.ReverseTrend,
                                  !.Off = params.Off]
        r1 == TrendSetDuration(a0, params.Duration)
        r2 == SetStartDelay(r1.a, params.StartDelay)
        r3 == TrendSetMagFunctionByName(r2.a, params.MagFuncName)
        r4 == SetPeriodDuration(r3.a, params.PeriodDuration)
    IN  IF r1.err \/ r2.err \/ r3.err \/ r4.err
        THEN [err |-> TRUE, a |-> ZeroAnomaly]
        ELSE [err |-> FALSE, a |-> r4.a]

\* spikeAnomaly.SetProbability
SetProbability(a, probability) ==
    IF RLess(probability, Zero) THEN [err |-> TRUE, a |-> a]
    ELSE [err |-> FALSE, a |-> [a EXCEPT !.probability = probability]]

\* SetSpikeSign testing the lower limit only
SetSpikeSign_LowerOnly(a, spikeSign) ==
    IF RLess(spikeSign, RInt(-1)) THEN [err |-> TRUE, a |-> a]
    ELSE [err |-> FALSE, a |-> [a EXCEPT !.spikeSign = spikeSign]]

\* spikeAnomaly.SetSpikeSign
SetSpikeSign(a, spikeSign) ==
    IF RLess(spikeSign, RInt(-1)) \/ RGreater(spikeSign, RInt(1))
    THEN [err |-> TRUE, a |-> a]
    ELSE [err |-> FALSE, a |-> [a EXCEPT !.spikeSign = spikeSign]]

\* spikeAnomaly.SetDuration: 0 means continuous, stored as -1; not allowed
\* together with a magnitude function
SpikeSetDuration(a, duration) ==
    IF duration = 0 /\ a.magFuncName # "" THEN [err |-> TRUE, a |-> a]
    ELSE [err |-> FALSE,
          a |-> [a EXCEPT !.duration = IF duration = 0 THEN -1 ELSE duration]]

\* NewSpikeAnomaly: the checking setters in the order start delay,
\* probability, magnitude function, probability function, sign, duration;
\* then the plain fields.  The name is taken from the parameters, as the
\* tests that build named spikes require.
NewSpikeAnomaly(params) ==
    LET r1 == SetStartDelay(ZeroAnomaly, params.StartDelay)
        r2 == SetProbability(r1.a, params.Probability)
        r3 == SetMagFunctionByNameBase(r2.a, params.MagFuncName)
        r4 == SetProbFunctionByName(r3.a, params.ProbFuncName)
        r5 == SetSpikeSign(r4.a, params.SpikeSign)
        r6 == SpikeSetDuration(r5.a, params.Duration)
    IN  IF r1.err \/ r2.err \/ r3.err \/ r4.err \/ r5.err \/ r6.err
        THEN [err |-> TRUE, a |-> ZeroAnomaly]
        ELSE [err |-> FALSE,
              a |-> [r6.a EXCEPT !.name = params.Name,
                                 !.typeName = "spike",
                                 !.Magnitude = params.Magnitude,
                                 !.VaryMagnitude = params.VaryMagnitude,
                                 !.Repeats = params.Repeats,
                                 !.Off = params.Off]]

----------------------------------------------------------------------------
(* The timing state machine and the two stepAnomaly variants.  A step      *)
(* returns the object after the call (a), the value returned (out) and the *)
(* number of random draws it consumed (draws).                             *)

\* CheckAnomalyActive with the delay compared to int(startDelay/Ts)
CheckAnomalyActive_WholeDelay(a, Ts) ==
    LET moreRepeatsAllowed == a.countRepeats < a.Repeats \/ a.Repeats = 0
    IN  IF ~moreRepeatsAllowed
        THEN [a |-> [a EXCEPT !.Off = TRUE], active |-> FALSE]
        ELSE [a |-> a,
              active |-> a.startDelayIndex >= IntDiv(a.startDelay, Ts)]

\* CheckAnomalyActive with the repeat test off by one (<= for <)
CheckAnomalyActive_OneMore(a, Ts) ==
    LET moreRepeatsAllowed == a.countRepeats <= a.Repeats \/ a.Repeats = 0
    IN  IF ~moreRepeatsAllowed
        THEN [a |-> [a EXCEPT !.Off = TRUE], active |-> FALSE]
        ELSE [a |-> a,
              active |-> a.startDelayIndex >= IntDiv(a.startDelay, Ts) - 1]

\* AnomalyBase.CheckAnomalyActive: switches the anomaly off when no repeat is
\* left; otherwise active once the delay index has reached int(startDelay/Ts)-1.
CheckAnomalyActive(a, Ts) ==
    LET moreRepeatsAllowed == a.countRepeats < a.Repeats \/ a.Repeats = 0
    IN  IF ~moreRepeatsAllowed
        THEN [a |-> [a EXCEPT !.Off = TRUE], active |-> FALSE]
        ELSE [a |-> a,
              active |-> a.startDelayIndex >= IntDiv(a.startDelay, Ts) - 1]

\* trendDelta with the both-flags case negating before reversing
trendDelta_InvertFirst(a, v) ==
    CASE a.ReverseTrend /\ a.InvertTrend -> RSub(a.Magnitude, RNeg(v))
      [] a.ReverseTrend /\ ~a.InvertTrend -> RSub(a.Magnitude, v)
      [] ~a.ReverseTrend /\ a.InvertTrend -> RNeg(v)
      [] OTHER -> v

\* The switch on ReverseTrend and InvertTrend of trendAnomaly.stepAnomaly
trendDelta(a, v) ==
    CASE a.ReverseTrend /\ a.InvertTrend -> RNeg(RSub(a.Magnitude, v))
      [] a.ReverseTrend /\ ~a.InvertTrend -> RSub(a.Magnitude, v)
      [] ~a.ReverseTrend /\ a.InvertTrend -> RNeg(v)
      [] OTHER -> v

\* trendComplete with the burst ending one tick late
trendComplete_LateReset(a, Ts) ==
    IF a.elapsedActivatedIndex = IntDiv(a.duration, Ts) + 1
    THEN [a EXCEPT !.elapsedActivatedIndex = 0,
                   !.startDelayIndex = 0,
                   !.countRepeats = @ + 1]
    ELSE a

\* The end of a trend burst: the indices are reset and the burst is counted
\* when the activated index equals int(duration/Ts).
trendComplete(a, Ts) ==
    IF a.elapsedActivatedIndex = IntDiv(a.duration, Ts)
    THEN [a EXCEPT !.elapsedActivatedIndex = 0,
                   !.startDelayIndex = 0,
                   !.countRepeats = @ + 1]
    ELSE a

\* trendAnomaly.stepAnomaly below its Off test
trendStepOn(a, Ts) ==
    LET chk == CheckAnomalyActive(a, Ts)
        a1 == [chk.a EXCEPT !.isAnomalyActive = chk.active]
    IN  IF ~chk.active
        THEN [a |-> [a1 EXCEPT !.startDelayIndex = @ + 1],
              out |-> Zero, draws |-> 0]
        ELSE
          LET a2 == [a1 EXCEPT
                       !.elapsedActivatedTime = a1.elapsedActivatedIndex * Ts,
                       !.elapsedActivatedIndex = @ + 1]
              v == Apply(a2.magFuncName, a2.elapsedActivatedTime,
                         a2.Magnitude, a2.periodDuration)
          IN  [a |-> trendComplete(a2, Ts),
               out |-> trendDelta(a2, v), draws |-> 0]

\* trendAnomaly.stepAnomaly: an anomaly that is Off returns 0 at once
trendStepAnomaly(a, Ts) ==
    IF a.Off THEN [a |-> a, out |-> Zero, draws |-> 0]
    ELSE trendStepOn(a, Ts)

\* trendAnomaly.stepAnomaly with the state outside the anomaly that its
\* function may read and write (see Call); for the functions of Apply it
\* is trendStepAnomaly.
trendStepAnomalyGlobal(a, Ts, env) ==
    IF a.Off
    THEN [a |-> a, out |-> Zero, previousValue |-> env.previousValue]
    ELSE
      LET chk == CheckAnomalyActive(a, Ts)
          a1 == [chk.a EXCEPT !.isAnomalyActive = chk.active]
      IN  IF ~chk.active
          THEN [a |-> [a1 EXCEPT !.startDelayIndex = @ + 1],
                out |-> Zero, previousValue |-> env.previousValue]
          ELSE
            LET a2 == [a1 EXCEPT
                         !.elapsedActivatedTime = a1.elapsedActivatedIndex * Ts,
                         !.elapsedActivatedIndex = @ + 1]
                v == Call(a2.magFuncName, a2.elapsedActivatedTime,
                          a2.Magnitude, a2.periodDuration, env)
            IN  [a |-> trendComplete(a2, Ts),
                 out |-> trendDelta(a2, v.y),
                 previousValue |-> v.previousValue]

\* spikeAnomaly.FetchProbability
FetchProbability(a) ==
    IF a.probFuncName = "" THEN a.probability
    ELSE RAbs(Apply(a.probFuncName, a.elapsedActivatedTime,
                    a.probability, a.duration))

\* spikeAnomaly.getSign, u the uniform draw it takes
getSign(a, u) ==
    IF RGreater(RSub(RMul(u, RInt(2)), RInt(1)), a.spikeSign)
    THEN RInt(-1) ELSE RInt(1)

\* The end of a spike burst, tested on triggered ticks only
spikeComplete(a, Ts) ==
    IF a.elapsedActivatedIndex >= IntDiv(a.duration, Ts) - 1
    THEN [a EXCEPT !.elapsedActivatedIndex = 0,
                   !.startDelayIndex = 0,
                   !.countRepeats = @ + 1]
    ELSE a

\* spikeStepOn with the trigger draw used again for the sign
spikeStepOn_OneUniform(a, Ts, d) ==
    LET chk == CheckAnomalyActive(a, Ts)
        a1 == [chk.a EXCEPT !.isAnomalyActive = chk.active]
    IN  IF ~chk.active
        THEN [a |-> [a1 EXCEPT !.startDelayIndex = @ + 1],
              out |-> Zero, draws |-> 0]
        ELSE
          LET a2 == [a1 EXCEPT
                       !.elapsedActivatedTime = a1.elapsedActivatedIndex * Ts,
                       !.elapsedActivatedIndex = @ + 1]
          IN  IF RGreater(d.trig, FetchProbability(a2))
              THEN [a |-> [a2 EXCEPT !.isAnomalyActive = FALSE],
                    out |-> Zero, draws |-> 1]
              ELSE
                LET a3 == [a2 EXCEPT !.isAnomalyActive = TRUE]
                    base == IF a3.magFuncName # ""
                            THEN Apply(a3.magFuncName, a3.elapsedActivatedTime,
                                       a3.Magnitude, a3.duration)
                            ELSE a3.Magnitude
                    signed == RMul(base, getSign(a3, d.trig))
                    delta == IF a3.VaryMagnitude THEN RMul(signed, d.norm)
                             ELSE signed
                IN  [a |-> spikeComplete(a3, Ts), out |-> delta,
                     draws |-> IF a3.VaryMagnitude THEN 2 ELSE 1]

\* spikeAnomaly.stepAnomaly below its Off test; d.trig and d.sign are the
\* uniform draws and d.norm the normal draw the random source would give, in
\* that order
spikeStepOn(a, Ts, d) ==
    LET chk == CheckAnomalyActive(a, Ts)
        a1 == [chk.a EXCEPT !.isAnomalyActive = chk.active]
    IN  IF ~chk.active
        THEN [a |-> [a1 EXCEPT !.startDelayIndex = @ + 1],
              out |-> Zero, draws |-> 0]
        ELSE
          LET a2 == [a1 EXCEPT
                       !.elapsedActivatedTime = a1.elapsedActivatedIndex * Ts,
                       !.elapsedActivatedIndex = @ + 1]
          IN  IF RGreater(d.trig, FetchProbability(a2))
              THEN [a |-> [a2 EXCEPT !.isAnomalyActive = FALSE],
                    out |-> Zero, draws |-> 1]
              ELSE
                LET a3 == [a2 EXCEPT !.isAnomalyActive = TRUE]
                    base == IF a3.magFuncName # ""
                            THEN Apply(a3.magFuncName, a3.elapsedActivatedTime,
                                       a3.Magnitude, a3.duration)
                            ELSE a3.Magnitude
                    signed == RMul(base, getSign(a3, d.sign))
                    delta == IF a3.VaryMagnitude THEN RMul(signed, d.norm)
                             ELSE signed
                IN  [a |-> spikeComplete(a3, Ts), out |-> delta,
                     draws |-> IF a3.VaryMagnitude THEN 3 ELSE 2]

\* spikeAnomaly.stepAnomaly without its Off test
spikeStepAnomaly_NoOffTest(a, Ts, d) == spikeStepOn(a, Ts, d)

\* spikeAnomaly.stepAnomaly: an anomaly that is Off returns 0 at once
spikeStepAnomaly(a, Ts, d) ==
    IF a.Off THEN [a |-> a, out |-> Zero, draws |-> 0]
    ELSE spikeStepOn(a, Ts, d)

\* The dynamic dispatch of AnomalyInterface.stepAnomaly
stepAnomaly(a, Ts, d) ==
    IF a.typeName = "trend" THEN trendStepAnomaly(a, Ts)
    ELSE spikeStepAnomaly(a, Ts, d)

----------------------------------------------------------------------------
(* Container: a slice of anomaly pointers.  c is the slice, h the heap.    *)

\* Container.GetAnomalyByName: the first member with the name; 0 is nil.
GetAnomalyByName(c, h, name) ==
    LET hits == {i \in 1..Len(c) : GetName(h[c[i]]) = name}
    IN  IF hits = {} THEN 0
        ELSE c[CHOOSE i \in hits : \A j \in hits : i <= j]

\* AddAnomaly rejecting a name only when a member of the same type has it
AddAnomaly_SameTypeOnly(c, h, p) ==
    IF \E i \in 1..Len(c) : /\ GetName(h[c[i]]) = GetName(h[p])
                            /\ GetTypeAsString(h[c[i]]) = GetTypeAsString(h[p])
    THEN [err |-> TRUE, c |-> c]
    ELSE [err |-> FALSE, c |-> Append(c, p)]

\* Container.AddAnomaly: rejects a name that is already used, else appends.
AddAnomaly(c, h, p) ==
    IF GetAnomalyByName(c, h, GetName(h[p])) # 0
    THEN [err |-> TRUE, c |-> c]
    ELSE [err |-> FALSE, c |-> Append(c, p)]

\* UpdateAnomalyByName matching on the name alone
UpdateAnomalyByName_NameOnly(c, h, name, p) ==
    LET hits == {i \in 1..Len(c) : GetName(h[c[i]]) = name}
    IN  IF hits = {} THEN [err |-> TRUE, c |-> c]
        ELSE [err |-> FALSE,
              c |-> [c EXCEPT ![CHOOSE i \in hits : \A j \in hits : i <= j] = p]]

\* Container.UpdateAnomalyByName: the first member that has both the name and
\* the type of the new anomaly is replaced by it.
UpdateAnomalyByName(c, h, name, p) ==
    LET hits == {i \in 1..Len(c) :
                    /\ GetName(h[c[i]]) = name
                    /\ GetTypeAsString(h[c[i]]) = GetTypeAsString(h[p])}
    IN  IF hits = {} THEN [err |-> TRUE, c |-> c]
        ELSE [err |-> FALSE,
              c |-> [c EXCEPT ![CHOOSE i \in hits : \A j \in hits : i <= j] = p]]

\* The loop of Container.StepAll from index i on: h is the heap so far, value
\* the running sum, outs the values returned so far, log the pointers stepped
\* so far, draws the random draws consumed so far, rnd[i] the draws on offer
\* to the i-th call.
RECURSIVE StepAllFrom(_, _, _, _, _, _)
StepAllFrom(c, i, Ts, rnd, h, acc) ==
    IF i > Len(c) THEN [heap |-> h] @@ acc
    ELSE LET r == stepAnomaly(h[c[i]], Ts, rnd[i])
         IN  StepAllFrom(c, i + 1, Ts, rnd, [h EXCEPT ![c[i]] = r.a],
                         [value |-> RAdd(acc.value, r.out),
                          outs |-> Append(acc.outs, r.out),
                          log |-> Append(acc.log, c[i]),
                          draws |-> acc.draws + r.draws])

\* StepAll with the loop stepping copies of the members
StepAll_OnCopies(c, h, Ts, rnd) ==
    [StepAllFrom(c, 1, Ts, rnd, h,
                 [value |-> Zero, outs |-> <<>>, log |-> <<>>, draws |-> 0])
     EXCEPT !.heap = h]

\* Container.StepAll
StepAll(c, h, Ts, rnd) ==
    StepAllFrom(c, 1, Ts, rnd, h,
                [value |-> Zero, outs |-> <<>>, log |-> <<>>, draws |-> 0])

----------------------------------------------------------------------------
(* Inputs: parameter records and random draws, from small sets             *)

NoRet == [err |-> FALSE, value |-> Zero, outs |-> <<>>, log |-> <<>>,
          draws |-> 0, found |-> 0, fn |-> ""]
NoOp == [name |-> "init", p |-> 0, key |-> "", Ts |-> 0]

\* The state outside the anomaly package at program start: the walk value
\* is 0, no Emulator exists, the phase angle is 0.
InitRest ==
    /\ previousValue = RInt(0)
    /\ solo = RInt(0)
    /\ emu = <<>>
    /\ pAngle = RInt(0)

TrendParams(name, N, off, sd, D, pd, M, fn, inv, rev) ==
    [Name |-> name, Repeats |-> N, Off |-> off, StartDelay |-> sd,
     Duration |-> D, PeriodDuration |-> pd, Magnitude |-> M,
     MagFuncName |-> fn, InvertTrend |-> inv, ReverseTrend |-> rev]

SpikeParams(name, N, off, sd, D, M, fn, vary, sign, prob, pfn) ==
    [Name |-> name, Repeats |-> N, Off |-> off, StartDelay |-> sd,
     Duration |-> D, Magnitude |-> M, MagFuncName |-> fn,
     VaryMagnitude |-> vary, SpikeSign |-> sign, Probability |-> prob,
     ProbFuncName |-> pfn]

\* Values r.Float64() can give (it lies in [0, 1)) and values r.NormFloat64()
\* can give.
Uniform == {Zero, Rat(1, 2), Rat(3, 4)}
Normal == {RInt(-1), RInt(2)}
Draws == [trig : Uniform, sign : Uniform, norm : Normal]
NoDraw == [trig |-> Zero, sign |-> Zero, norm |-> RInt(2)]

----------------------------------------------------------------------------
(* SpecTrend: four trends built from the same parameters, one for each     *)
(* combination of InvertTrend and ReverseTrend, stepped side by side with  *)
(* a constant tick period.  heap[1] is the plain trend.                    *)

InitTrend ==
    \E M \in {1, 10}, D \in 0..MaxDuration, sd \in 0..MaxDelay,
       N \in 0..MaxRepeats, off \in BOOLEAN, pd \in {0, 2},
       fn \in {"", "linear", "step", "nosuch"}, t \in 1..MaxTs :
        LET P(inv, rev) ==
                NewTrendAnomaly(TrendParams("t", N, off, sd, D, pd, RInt(M),
                                            fn, inv, rev))
        IN  /\ ~P(FALSE, FALSE).err
            /\ heap = <<P(FALSE, FALSE).a, P(TRUE, FALSE).a,
                        P(FALSE, TRUE).a, P(TRUE, TRUE).a>>
            /\ container = <<>>
            /\ op = NoOp
            /\ ret = NoRet
            /\ calls = 0
            /\ ts = t
            /\ InitRest

StepTrends ==
    /\ calls < MaxCalls
    /\ heap' = [i \in 1..4 |-> stepAnomaly(heap[i], ts, NoDraw).a]
    /\ ret' = [NoRet EXCEPT
                 !.outs = [i \in 1..4 |-> stepAnomaly(heap[i], ts, NoDraw).out]]
    /\ op' = [name |-> "stepAnomaly", p |-> 0, key |-> "", Ts |-> ts]
    /\ calls' = calls + 1
    /\ UNCHANGED <<container, ts>>
    /\ UNCHANGED rest

NextTrend == StepTrends

SpecTrend == InitTrend /\ [][NextTrend]_vars

----------------------------------------------------------------------------
(* SpecAnomaly: one anomaly, trend or spike, built by its constructor and  *)
(* stepped with any tick period and any random draws.                      *)

TrendInputs ==
    {TrendParams("t", N, off, sd, D, 0, RInt(2), "", inv, FALSE) :
        N \in 0..MaxRepeats, off \in BOOLEAN, sd \in {0, MaxDelay},
        D \in {0, 1, MaxDuration - 2}, inv \in BOOLEAN}

SpikeInputs ==
    {SpikeParams("s", N, off, sd, D, RInt(2), "", vary, Zero, prob, pfn) :
        N \in 0..MaxRepeats, off \in BOOLEAN, sd \in {0, MaxDelay},
        D \in {0, 1, MaxDuration - 2}, vary \in BOOLEAN,
        prob \in {Zero, Rat(1, 2)}, pfn \in {"", "flat"}}

InitAnomaly ==
    /\ \/ \E params \in TrendInputs :
            /\ ~NewTrendAnomaly(params).err
            /\ heap = <<NewTrendAnomaly(params).a>>
       \/ \E params \in SpikeInputs :
            /\ ~NewSpikeAnomaly(params).err
            /\ heap = <<NewSpikeAnomaly(params).a>>
    /\ container = <<>>
    /\ op = NoOp
    /\ ret = NoRet
    /\ calls = 0
    /\ ts = 0
    /\ InitRest

StepOne ==
    /\ calls < MaxTicks
    /\ \E Ts \in 1..MaxTs, d \in Draws :
        LET r == stepAnomaly(heap[1], Ts, d)
        IN  /\ heap' = <<r.a>>
            /\ ret' = [NoRet EXCEPT !.value = r.out, !.outs = <<r.out>>,
                                    !.draws = r.draws]
            /\ op' = [name |-> "stepAnomaly", p |-> 1, key |-> "", Ts |-> Ts]
    /\ calls' = calls + 1
    /\ UNCHANGED <<container, ts>>
    /\ UNCHANGED rest

NextAnomaly == StepOne

SpecAnomaly == InitAnomaly /\ [][NextAnomaly]_vars

----------------------------------------------------------------------------
(* Spec: a Container and the anomalies a program has constructed for it.   *)
(* The program may add any constructed anomaly, replace a member by any    *)
(* constructed anomaly, look a name up and step the container with the     *)
(* tick period ts of the run.                                              *)

\* The anomalies constructed: a trend named "a" with a single burst of one
\* second, a continuous spike named "a", and a trend with the empty name, a
\* start delay of two seconds and bursts of two seconds.
Pool ==
    <<NewTrendAnomaly(TrendParams("a", 1, FALSE, 0, 1, 0, RInt(2), "flat",
                                  FALSE, FALSE)).a,
      NewSpikeAnomaly(SpikeParams("a", 0, FALSE, 0, 0, RInt(1), "", TRUE,
                                  Zero, Rat(1, 2), "")).a,
      NewTrendAnomaly(TrendParams("", 0, FALSE, 2, 2, 0, RInt(6), "flat",
                                  TRUE, FALSE)).a>>

\* The names a lookup or an update may ask for; no anomaly is named "c".
Names == {"", "a", "c"}

\* The draws on offer to the members of c: one record for each member (a
\* trend takes none, so its record is fixed).
ContainerDraws ==
    [trig : {Zero, Rat(3, 4)}, sign : {Zero}, norm : {RInt(2)}]

RndFor(c, h) ==
    {rnd \in [1..Len(c) -> ContainerDraws] :
        \A i \in 1..Len(c) : h[c[i]].typeName = "trend" => rnd[i] = NoDraw}

Init ==
    /\ heap = Pool
    /\ container = <<>>
    /\ op = NoOp
    /\ ret = NoRet
    /\ calls = 0
    /\ ts \in {1, 2}
    /\ InitRest

DoAddAnomaly ==
    /\ \E p \in 1..Len(heap) :
        LET r == AddAnomaly(container, heap, p)
        IN  /\ Len(r.c) <= MaxLen
            /\ container' = r.c
            /\ ret' = [NoRet EXCEPT !.err = r.err]
            /\ op' = [name |-> "AddAnomaly", p |-> p, key |-> "", Ts |-> 0]
    /\ UNCHANGED <<heap, calls, ts>>
    /\ UNCHANGED rest

DoUpdateAnomalyByName ==
    /\ \E name \in Names, p \in 1..Len(heap) :
        LET r == UpdateAnomalyByName(container, heap, name, p)
        IN  /\ container' = r.c
            /\ ret' = [NoRet EXCEPT !.err = r.err]
            /\ op' = [name |-> "UpdateAnomalyByName", p |-> p, key |-> name,
                      Ts |-> 0]
    /\ UNCHANGED <<heap, calls, ts>>
    /\ UNCHANGED rest

DoGetAnomalyByName ==
    /\ \E name \in Names :
        /\ ret' = [NoRet EXCEPT
                     !.found = GetAnomalyByName(container, heap, name)]
        /\ op' = [name |-> "GetAnomalyByName", p |-> 0, key |-> name, Ts |-> 0]
    /\ UNCHANGED <<heap, container, calls, ts>>
    /\ UNCHANGED rest

DoStepAll ==
    /\ calls < MaxSteps
    /\ \E rnd \in RndFor(container, heap) :
        LET r == StepAll(container, heap, ts, rnd)
        IN  /\ heap' = r.heap
            /\ ret' = [NoRet EXCEPT !.value = r.value, !.outs = r.outs,
                                    !.log = r.log, !.draws = r.draws]
            /\ op' = [name |-> "StepAll", p |-> 0, key |-> "", Ts |-> ts]
    /\ calls' = calls + 1
    /\ UNCHANGED <<container, ts>>
    /\ UNCHANGED rest

Next ==
    \/ DoAddAnomaly
    \/ DoUpdateAnomalyByName
    \/ DoGetAnomalyByName
    \/ DoStepAll

Spec == Init /\ [][Next]_vars

----------------------------------------------------------------------------
(* SpecNew: the constructors and setters called with any parameters, valid *)
(* or not.  heap holds the anomaly the last constructor returned (empty:   *)
(* nil); the setters, the registry lookup and stepAnomaly act on it.  A     *)
(* behaviour constructs one anomaly, as its first operation.               *)

TrendRequests ==
    {TrendParams("t", N, off, sd, D, pd, RInt(2), fn, FALSE, FALSE) :
        N \in {0, 1}, off \in BOOLEAN, sd \in {-1, 0, 2}, D \in {-1, 0, 2},
        pd \in {-1, 0, 2}, fn \in {"", "flat", "nosuch"}}

SpikeRequests ==
    {SpikeParams("s", N, off, sd, D, RInt(2), fn, FALSE, sign, prob, pfn) :
        N \in {0, 2}, off \in BOOLEAN, sd \in {-1, 0, 1}, D \in {-2, 0, 2},
        fn \in {"", "flat", "nosuch"},
        sign \in {RInt(-2), RInt(-1), Rat(1, 2), RInt(2)},
        prob \in {Rat(-1, 2), Zero, Rat(1, 2)},
        pfn \in {"", "flat", "nosuch"}}

\* The names a caller may look up: the registered ones, the empty name and
\* two that are not registered.
LookupNames == mathsFunctions \cup {"", "nosuch", "Linear"}

InitNew ==
    /\ heap = <<>>
    /\ container = <<>>
    /\ op = NoOp
    /\ ret = NoRet
    /\ calls = 0
    /\ ts = 0
    /\ InitRest

DoNewTrendAnomaly ==
    /\ calls = 0
    /\ \E params \in TrendRequests :
        LET r == NewTrendAnomaly(params)
        IN  /\ heap' = IF r.err THEN <<>> ELSE <<r.a>>
            /\ ret' = [NoRet EXCEPT !.err = r.err]
            /\ op' = [name |-> "NewTrendAnomaly", p |-> params, key |-> "",
                      Ts |-> 0]
    /\ calls' = calls + 1
    /\ UNCHANGED <<container, ts>>
    /\ UNCHANGED rest

DoNewSpikeAnomaly ==
    /\ calls = 0
    /\ \E params \in SpikeRequests :
        LET r == NewSpikeAnomaly(params)
        IN  /\ heap' = IF r.err THEN <<>> ELSE <<r.a>>
            /\ ret' = [NoRet EXCEPT !.err = r.err]
            /\ op' = [name |-> "NewSpikeAnomaly", p |-> params, key |-> "",
                      Ts |-> 0]
    /\ calls' = calls + 1
    /\ UNCHANGED <<container, ts>>
    /\ UNCHANGED rest

DoSetDuration ==
    /\ calls < MaxOps
    /\ heap # <<>>
    /\ \E D \in {-1, 0, 2} :
        LET r == IF heap[1].typeName = "trend"
                 THEN TrendSetDuration(heap[1], D)
                 ELSE SpikeSetDuration(heap[1], D)
        IN  /\ heap' = <<r.a>>
            /\ ret' = [NoRet EXCEPT !.err = r.err]
            /\ op' = [name |-> "SetDuration", p |-> D, key |-> "", Ts |-> 0]
    /\ calls' = calls + 1
    /\ UNCHANGED <<container, ts>>
    /\ UNCHANGED rest

DoSetMagFunctionByName ==
    /\ calls < MaxOps
    /\ heap # <<>>
    /\ \E name \in {"", "flat", "nosuch"} :
        LET r == IF heap[1].typeName = "trend"
                 THEN TrendSetMagFunctionByName(heap[1], name)
                 ELSE SetMagFunctionByNameBase(heap[1], name)
        IN  /\ heap' = <<r.a>>
            /\ ret' = [NoRet EXCEPT !.err = r.err]
            /\ op' = [name |-> "SetMagFunctionByName", p |-> 0, key |-> name,
                      Ts |-> 0]
    /\ calls' = calls + 1
    /\ UNCHANGED <<container, ts>>
    /\ UNCHANGED rest

DoGetTrendFunctionFromName ==
    /\ calls < MaxOps
    /\ \E name \in LookupNames :
        LET r == GetTrendFunctionFromName(name)
        IN  /\ ret' = [NoRet EXCEPT !.err = r.err, !.fn = r.fn]
            /\ op' = [name |-> "GetTrendFunctionFromName", p |-> 0,
                      key |-> name, Ts |-> 0]
    /\ calls' = calls + 1
    /\ UNCHANGED <<heap, container, ts>>
    /\ UNCHANGED rest

DoStepNew ==
    /\ calls < MaxOps
    /\ heap # <<>>
    /\ \E Ts \in 1..MaxTs, d \in ContainerDraws :
        LET r == stepAnomaly(heap[1], Ts, d)
        IN  /\ heap' = <<r.a>>
            /\ ret' = [NoRet EXCEPT !.value = r.out, !.outs = <<r.out>>,
                                    !.draws = r.draws]
            /\ op' = [name |-> "stepAnomaly", p |-> 1, key |-> "", Ts |-> Ts]
    /\ calls' = calls + 1
    /\ UNCHANGED <<container, ts>>
    /\ UNCHANGED rest

NextNew ==
    \/ DoNewTrendAnomaly
    \/ DoNewSpikeAnomaly
    \/ DoSetDuration
    \/ DoSetMagFunctionByName
    \/ DoGetTrendFunctionFromName
    \/ DoStepNew

SpecNew == InitNew /\ [][NextNew]_vars

----------------------------------------------------------------------------
(* SpecWalk: one trend anomaly whose shaping function is "random_walk",    *)
(* the only caller of the function in the process, stepped with any tick   *)
(* period and any draws.                                                   *)

Amplitudes == {RInt(1), RInt(2)}

\* Values rand.Float64() of the process-wide source can give to the walk
WalkUniform == {Zero, Rat(3, 4)}

Walker(name, A, D) ==
    NewTrendAnomaly(TrendParams(name, 0, FALSE, 0, D, 0, A, "random_walk",
                                FALSE, FALSE)).a

InitWalk ==
    /\ \E A \in Amplitudes : heap = <<Walker("w", A, MaxDuration)>>
    /\ container = <<>>
    /\ op = NoOp
    /\ ret = NoRet
    /\ calls = 0
    /\ ts = 0
    /\ InitRest

StepWalk ==
    /\ calls < MaxWalk
    /\ \E Ts \in 1..MaxTs, u \in WalkUniform :
        LET r == trendStepAnomalyGlobal(heap[1], Ts,
                    [previousValue |-> previousValue, u |-> u, norm |-> Zero])
        IN  /\ heap' = <<r.a>>
            /\ previousValue' = r.previousValue
            /\ solo' = r.previousValue
            /\ ret' = [NoRet EXCEPT !.value = r.out, !.outs = <<r.out>>]
            /\ op' = [name |-> "stepAnomaly", p |-> 1, key |-> "", Ts |-> Ts]
    /\ calls' = calls + 1
    /\ UNCHANGED <<container, ts, emu, pAngle>>

NextWalk == StepWalk

SpecWalk == InitWalk /\ [][NextWalk]_vars

----------------------------------------------------------------------------
(* SpecWalkers: two trend anomalies that both use "random_walk", stepped   *)
(* in any order.  Both hold the one function value of the registry, so     *)
(* both calls go to the one captured previousValue.  solo follows the      *)
(* first walker alone: it is updated, from its own last value and with the *)
(* same draw, whenever the first walker is stepped, and left alone when    *)
(* the second one is.                                                      *)

InitWalkers ==
    /\ \E A1 \in Amplitudes, A2 \in Amplitudes :
          heap = <<Walker("w1", A1, MaxDuration), Walker("w2", A2, MaxDuration)>>
    /\ container = <<>>
    /\ op = NoOp
    /\ ret = NoRet
    /\ calls = 0
    /\ ts = 0
    /\ InitRest

StepWalker ==
    /\ calls < MaxTicks
    /\ \E i \in 1..2, Ts \in 1..MaxTs, u \in WalkUniform :
        LET r == trendStepAnomalyGlobal(heap[i], Ts,
                    [previousValue |-> previousValue, u |-> u, norm |-> Zero])
            alone == trendStepAnomalyGlobal(heap[i], Ts,
                    [previousValue |-> solo, u |-> u, norm |-> Zero])
        IN  /\ heap' = [heap EXCEPT ![i] = r.a]
            /\ previousValue' = r.previousValue
            /\ solo' = IF i = 1 THEN alone.previousValue ELSE solo
            /\ ret' = [NoRet EXCEPT !.value = r.out, !.outs = <<r.out>>]
            /\ op' = [name |-> "stepAnomaly", p |-> i, key |-> "", Ts |-> Ts]
    /\ calls' = calls + 1
    /\ UNCHANGED <<container, ts, emu, pAngle>>

NextWalkers == StepWalker

SpecWalkers == InitWalkers /\ [][NextWalkers]_vars

----------------------------------------------------------------------------
(* SpecEmu: two Emulator instances of one process, each with a temperature *)
(* emulation whose Container holds a trend and a spike.  The generator     *)
(* e.r of an instance is the pair of its seed and the number of draws      *)
(* taken from it; what it returns is a function of the two.  The           *)
(* process-wide source of math/rand/v2 is seeded at random: each of its    *)
(* draws is a nondeterministic choice.                                     *)

Seeds == {1, 2}

\* The draws of a generator made by rand.New(rand.NewPCG(seed, seed)): the
\* n-th draw (from 0) read as Float64 and as NormFloat64
PCGFloat64(r) == Rat((r.seed + 3 * r.n) % 4, 4)
PCGNormFloat64(r) == RInt(((r.seed + r.n) % 3) - 1)

\* The shaping functions of the trends of the two instances
EmuFuncs == {"flat", "random_noise", "gaussian_noise", "random_walk"}

\* What the process-wide source may give to one call of a shaping function
GlobalDraws == [u : WalkUniform, norm : {RInt(-1), RInt(2)}]

\* NewEmulator(1, f) with a temperature emulation: the generator is seeded
\* from the process-wide source (seed), Ts = 1/SamplingRate.
NewEmulator(fn, seed) ==
    [SamplingRate |-> 1, Ts |-> 1, SmpCnt |-> 0,
     r |-> [seed |-> seed, n |-> 0],
     T |-> [MeanTemperature |-> RInt(10), NoiseMag |-> Rat(1, 10),
            Anomaly |->
              <<NewTrendAnomaly(TrendParams("t", 0, FALSE, 0, 2, 0, RInt(2),
                                            fn, FALSE, FALSE)).a,
                NewSpikeAnomaly(SpikeParams("s", 0, FALSE, 0, 2, RInt(1), "",
                                            TRUE, Zero, Rat(1, 2), "")).a>>,
            T |-> Zero],
     trace |-> <<>>]

\* NewEmulator(1, f) with a temperature emulation that has no anomaly and
\* the noise magnitude NoiseMag
NewBareEmulator(NoiseMag, seed) ==
    [SamplingRate |-> 1, Ts |-> 1, SmpCnt |-> 0,
     r |-> [seed |-> seed, n |-> 0],
     T |-> [MeanTemperature |-> RInt(10), NoiseMag |-> NoiseMag,
            Anomaly |-> <<>>, T |-> Zero],
     trace |-> <<>>]

\* Emulator.SetRandomSeed
SetRandomSeed(e, seed) == [e EXCEPT !.r = [seed |-> seed, n |-> 0]]

\* One pass of the loop of Container.StepAll over a trend member: s is what
\* its stepAnomaly gave
TrendStepped(c, i, Ts, r, env, value, s) ==
    [c |-> [c EXCEPT ![i] = s.a], r |-> r,
     env |-> [env EXCEPT !.previousValue = s.previousValue],
     value |-> RAdd(value, s.out)]

\* One pass of the loop over a spike member: the generator moves on by the
\* draws the spike took
SpikeStepped(c, i, Ts, r, env, value, s) ==
    [c |-> [c EXCEPT ![i] = s.a], r |-> [r EXCEPT !.n = @ + s.draws],
     env |-> env, value |-> RAdd(value, s.out)]

\* The draws the generator r gives to a spike, in the order the spike takes
\* them
SpikeDraws(r) ==
    [trig |-> PCGFloat64(r),
     sign |-> PCGFloat64([r EXCEPT !.n = @ + 1]),
     norm |-> PCGNormFloat64([r EXCEPT !.n = @ + 2])]

\* The loop of Container.StepAll over the members of an instance, from
\* index i on; m holds the members, the generator, the state outside the
\* instance and the running sum
RECURSIVE StepAllGlobal(_, _, _)
StepAllGlobal(m, i, Ts) ==
    IF i > Len(m.c) THEN m
    ELSE IF m.c[i].typeName = "trend"
    THEN StepAllGlobal(
            TrendStepped(m.c, i, Ts, m.r, m.env, m.value,
                         trendStepAnomalyGlobal(m.c[i], Ts, m.env)),
            i + 1, Ts)
    ELSE StepAllGlobal(
            SpikeStepped(m.c, i, Ts, m.r, m.env, m.value,
                         spikeStepAnomaly(m.c[i], Ts, SpikeDraws(m.r))),
            i + 1, Ts)

\* The end of stepTemperature: all is what StepAll gave
TemperatureStepped(t, noise, all) ==
    [t |-> [t EXCEPT !.T = RAdd(RAdd(t.MeanTemperature, noise), all.value),
                     !.Anomaly = all.c],
     r |-> all.r, previousValue |-> all.env.previousValue]

\* stepTemperature with the noise drawn after the container was stepped
stepTemperature_NoiseLast(t, r, Ts, env) ==
    LET all == StepAllGlobal([c |-> t.Anomaly, r |-> r, env |-> env,
                              value |-> Zero], 1, Ts)
    IN  TemperatureStepped(
            t, RMul(RMul(PCGNormFloat64(all.r), t.NoiseMag), t.MeanTemperature),
            [all EXCEPT !.r = [all.r EXCEPT !.n = @ + 1]])

\* TemperatureEmulation.stepTemperature: mean plus Gaussian noise from r,
\* plus the sum of the anomalies
stepTemperature(t, r, Ts, env) ==
    TemperatureStepped(
        t, RMul(RMul(PCGNormFloat64(r), t.NoiseMag), t.MeanTemperature),
        StepAllGlobal([c |-> t.Anomaly, r |-> [r EXCEPT !.n = @ + 1],
                       env |-> env, value |-> Zero], 1, Ts))

\* The end of Emulator.Step: s is what stepTemperature gave; trace records
\* the outputs T.T of the instance
Stepped(e, s) ==
    [e |-> [e EXCEPT !.T = s.t, !.r = s.r,
                     !.SmpCnt = IF @ + 1 >= e.SamplingRate THEN 0 ELSE @ + 1,
                     !.trace = Append(@, s.t.T)],
     previousValue |-> s.previousValue]

\* Emulator.Step of an instance that has a temperature emulation only
Step(e, env) == Stepped(e, stepTemperature(e.T, e.r, e.Ts, env))

InitEmu ==
    /\ \E s1 \in Seeds, s2 \in Seeds :
          \/ \E fn \in EmuFuncs :
                emu = <<NewEmulator(fn, s1), NewEmulator(fn, s2)>>
          \/ \E NoiseMag \in {Zero, Rat(1, 10)} :
                emu = <<NewBareEmulator(NoiseMag, s1),
                        NewBareEmulator(NoiseMag, s2)>>
    /\ heap = <<>>
    /\ container = <<>>
    /\ op = NoOp
    /\ ret = NoRet
    /\ calls = 0
    /\ ts = 0
    /\ previousValue = Zero
    /\ solo = Zero
    /\ pAngle = Zero

\* A program seeds an instance before it steps it.
DoSetRandomSeed ==
    /\ \E i \in 1..2, seed \in Seeds :
        /\ emu[i].trace = <<>>
        /\ emu' = [emu EXCEPT ![i] = SetRandomSeed(emu[i], seed)]
        /\ op' = [name |-> "SetRandomSeed", p |-> i, key |-> "", Ts |-> 0]
    /\ ret' = NoRet
    /\ UNCHANGED <<heap, container, calls, ts, previousValue, solo, pAngle>>

\* The state after Emulator.Step of instance i gave s
StepDone(i, s) ==
    /\ emu' = [emu EXCEPT ![i] = s.e]
    /\ previousValue' = s.previousValue
    /\ ret' = [NoRet EXCEPT !.value = s.e.T.T]
    /\ op' = [name |-> "Step", p |-> i, key |-> "", Ts |-> emu[i].Ts]

DoStep ==
    /\ calls < MaxTicks
    /\ \E i \in 1..2, g \in GlobalDraws :
        StepDone(i, Step(emu[i], [previousValue |-> previousValue,
                                  u |-> g.u, norm |-> g.norm]))
    /\ calls' = calls + 1
    /\ UNCHANGED <<heap, container, ts, solo, pAngle>>

NextEmu ==
    \/ DoSetRandomSeed
    \/ DoStep

SpecEmu == InitEmu /\ [][NextEmu]_vars

----------------------------------------------------------------------------
(* SpecWrap: the phase angle of a three-phase emulation.  Angles are       *)
(* rational multiples of pi, so math.Pi is 1 and 2*math.Pi is 2.           *)

Pi == RInt(1)

\* wrapAngle wrapping at both ends
wrapAngle_TwoSided(a) ==
    IF RGreater(a, Pi) THEN RSub(a, RMul(RInt(2), Pi))
    ELSE IF RLess(a, RNeg(Pi)) \/ a = RNeg(Pi) THEN RAdd(a, RMul(RInt(2), Pi))
    ELSE a

\* wrapAngle
wrapAngle(a) ==
    IF RGreater(a, Pi) THEN RSub(a, RMul(RInt(2), Pi)) ELSE a

\* The advance f*2*pi*Ts of the angle in one step, in units of pi; the
\* frequency anomalies can make it negative.
Advances == {Rat(-3, 2), Rat(-1, 2), Rat(1, 4), Rat(3, 4), RInt(1), Rat(5, 2)}

InitWrap ==
    /\ heap = <<>>
    /\ container = <<>>
    /\ op = NoOp
    /\ ret = NoRet
    /\ calls = 0
    /\ ts = 0
    /\ InitRest

\* The first three statements of stepThreePhase: the angle advances, is
\* wrapped and is stored.  op.p is the angle handed to wrapAngle.
StepAngle ==
    /\ calls < MaxWraps
    /\ \E w \in Advances :
        LET angle == RAdd(w, pAngle)
        IN  /\ pAngle' = wrapAngle(angle)
            /\ ret' = [NoRet EXCEPT !.value = wrapAngle(angle)]
            /\ op' = [name |-> "wrapAngle", p |-> angle, key |-> "", Ts |-> 0]
    /\ calls' = calls + 1
    /\ UNCHANGED <<heap, container, ts, previousValue, solo, emu>>

NextWrap == StepAngle

SpecWrap == InitWrap /\ [][NextWrap]_vars

----------------------------------------------------------------------------
(* SpecThree: three-phase emulations.  Angles are rational multiples of    *)
(* pi that are multiples of pi/6, so every sine is a + b*sqrt(3) with a, b *)
(* rational; the outputs A, B and C are kept in that form, as records      *)
(* [r, s] for r + s*sqrt(3).                                               *)

TwoPiOverThree == RMul(RMul(RInt(2), Pi), Rat(1, 3))

Surd(a, b) == [r |-> a, s |-> b]
SZero == Surd(Zero, Zero)
SAdd(x, y) == Surd(RAdd(x.r, y.r), RAdd(x.s, y.s))
SScale(x, q) == Surd(RMul(x.r, q), RMul(x.s, q))

\* fast.Sin, taken as the exact sine, of the angle a*pi, a a multiple of 1/6
Sin(a) ==
    LET k == (a.n * (6 \div a.d)) % 12
    IN  CASE k \in {0, 6} -> SZero
          [] k \in {1, 5} -> Surd(Rat(1, 2), Zero)
          [] k \in {2, 4} -> Surd(Zero, Rat(1, 2))
          [] k = 3 -> Surd(RInt(1), Zero)
          [] k \in {7, 11} -> Surd(Rat(-1, 2), Zero)
          [] k \in {8, 10} -> Surd(Zero, Rat(-1, 2))
          [] k = 9 -> Surd(RInt(-1), Zero)

\* Container.StepAll(r, Ts) on the members c of an emulation: the result
\* holds the members, the generator and the state outside after the call,
\* and the sum returned (value)
RunContainer(c, r, env, Ts) ==
    StepAllGlobal([c |-> c, r |-> r, env |-> env, value |-> Zero], 1, Ts)

\* The i-th to the n-th term of the harmonics of one phase; shift is the
\* offset of the phase (0, -TwoPiOverThree or +TwoPiOverThree)
RECURSIVE HarmonicsFrom(_, _, _, _, _)
HarmonicsFrom(e, PosSeqPhase, shift, i, n) ==
    IF i > n THEN SZero
    ELSE SAdd(SScale(Sin(RAdd(RMul(RInt(e.HarmonicNumbers[i]),
                                   RAdd(PosSeqPhase, shift)),
                              e.HarmonicAngs[i])),
                     RMul(e.HarmonicMags[i], e.PosSeqMag)),
              HarmonicsFrom(e, PosSeqPhase, shift, i + 1, n))

\* The harmonics summed over the common prefix of the three arrays,
\* whatever their lengths
harmonics_CommonPrefix(e, PosSeqPhase, shift) ==
    LET l1 == Len(e.HarmonicNumbers)
        l2 == Len(e.HarmonicMags)
        l3 == Len(e.HarmonicAngs)
        l12 == IF l1 < l2 THEN l1 ELSE l2
    IN  HarmonicsFrom(e, PosSeqPhase, shift, 1, IF l12 < l3 THEN l12 ELSE l3)

\* ah, bh and ch before scaling: 0 unless HarmonicNumbers is not empty and
\* the three arrays have the same length
harmonics(e, PosSeqPhase, shift) ==
    IF /\ Len(e.HarmonicNumbers) > 0
       /\ Len(e.HarmonicNumbers) = Len(e.HarmonicMags)
       /\ Len(e.HarmonicNumbers) = Len(e.HarmonicAngs)
    THEN HarmonicsFrom(e, PosSeqPhase, shift, 1, Len(e.HarmonicNumbers))
    ELSE SZero

\* The sum of the positive, negative and zero sequence of one phase: shift
\* is the offset of the phase, extra the anomaly of phase A
sequences(e, PosSeqPhase, shift, posSeqMag, extra) ==
    SAdd(SAdd(SScale(Sin(RAdd(PosSeqPhase, shift)), RAdd(posSeqMag, extra)),
              SScale(Sin(RAdd(RSub(PosSeqPhase, shift), e.NegSeqAng)),
                     RMul(e.NegSeqMag, e.PosSeqMag))),
         SScale(Sin(RAdd(PosSeqPhase, e.ZeroSeqAng)),
                RMul(e.ZeroSeqMag, e.PosSeqMag)))

\* The noise of one phase: the k-th normal draw after the containers
noise(e, r, k) ==
    Surd(RMul(RMul(PCGNormFloat64([r EXCEPT !.n = @ + k]), e.NoiseMag),
              e.PosSeqMag), Zero)

\* One output with the harmonics left unscaled by the HarmonicsAnomaly
phaseOutput_UnscaledHarmonics(e, PosSeqPhase, shift, posSeqMag, extra, mH, k) ==
    SAdd(SAdd(sequences(e, PosSeqPhase, shift, posSeqMag, extra),
              harmonics(e, PosSeqPhase, shift)),
         noise(e, mH.r, k))

\* One output: sequences plus scaled harmonics plus noise
phaseOutput(e, PosSeqPhase, shift, posSeqMag, extra, mH, k) ==
    SAdd(SAdd(sequences(e, PosSeqPhase, shift, posSeqMag, extra),
              SScale(harmonics(e, PosSeqPhase, shift),
                     RAdd(RInt(1), mH.value))),
         noise(e, mH.r, k))

\* The end of stepThreePhase: mH is what HarmonicsAnomaly.StepAll gave; the
\* three noise draws follow it
stepThreePhaseOutputs(e, PosSeqPhase, posSeqMag, anomalyPhaseA, mH) ==
    [e |-> [e EXCEPT
              !.HarmonicsAnomaly = mH.c,
              !.A = phaseOutput(e, PosSeqPhase, Zero, posSeqMag,
                                anomalyPhaseA, mH, 0),
              !.B = phaseOutput(e, PosSeqPhase, RNeg(TwoPiOverThree),
                                posSeqMag, Zero, mH, 1),
              !.C = phaseOutput(e, PosSeqPhase, TwoPiOverThree,
                                posSeqMag, Zero, mH, 2)],
     r |-> [mH.r EXCEPT !.n = @ + 3],
     previousValue |-> mH.env.previousValue]

\* stepThreePhase that steps HarmonicsAnomaly only where harmonics are
\* configured
stepThreePhasePhaseA_HarmonicsOnly(e, PosSeqPhase, posSeqMag, Ts, mP) ==
    stepThreePhaseOutputs([e EXCEPT !.PhaseAMagAnomaly = mP.c], PosSeqPhase,
                          posSeqMag, mP.value,
                          IF Len(e.HarmonicNumbers) > 0
                          THEN RunContainer(e.HarmonicsAnomaly, mP.r, mP.env,
                                            Ts)
                          ELSE [c |-> e.HarmonicsAnomaly, r |-> mP.r,
                                env |-> mP.env, value |-> Zero])

\* stepThreePhase from the phase A magnitude anomaly on: mP is what
\* PhaseAMagAnomaly.StepAll gave
stepThreePhasePhaseA(e, PosSeqPhase, posSeqMag, Ts, mP) ==
    stepThreePhaseOutputs([e EXCEPT !.PhaseAMagAnomaly = mP.c], PosSeqPhase,
                          posSeqMag, mP.value,
                          RunContainer(e.HarmonicsAnomaly, mP.r, mP.env, Ts))

\* stepThreePhase with the fault active while the countdown is not
\* negative
stepThreePhaseMag_FaultWhileNotNegative(e, PosSeqPhase, Ts, mM) ==
    stepThreePhasePhaseA(
        [e EXCEPT !.PosSeqMagAnomaly = mM.c,
                  !.FaultRemainingSamples = IF @ >= 0 THEN @ - 1 ELSE @],
        PosSeqPhase,
        RAdd(IF e.FaultRemainingSamples >= 0
             THEN RAdd(e.PosSeqMag, e.FaultPosSeqMag) ELSE e.PosSeqMag,
             mM.value),
        Ts, RunContainer(e.PhaseAMagAnomaly, mM.r, mM.env, Ts))

\* stepThreePhase from the fault on: e.PosSeqMag is ramped, mM is what
\* PosSeqMagAnomaly.StepAll gave
stepThreePhaseMag(e, PosSeqPhase, Ts, mM) ==
    stepThreePhasePhaseA(
        [e EXCEPT !.PosSeqMagAnomaly = mM.c,
                  !.FaultRemainingSamples = IF @ > 0 THEN @ - 1 ELSE @],
        PosSeqPhase,
        RAdd(IF e.FaultRemainingSamples > 0
             THEN RAdd(e.PosSeqMag, e.FaultPosSeqMag) ELSE e.PosSeqMag,
             mM.value),
        Ts, RunContainer(e.PhaseAMagAnomaly, mM.r, mM.env, Ts))

\* stepThreePhase from the positive sequence angle anomaly on: e.pAngle is
\* the new angle, mA is what PosSeqAngAnomaly.StepAll gave
stepThreePhaseAngle(e, Ts, mA) ==
    stepThreePhaseMag(
        [e EXCEPT !.PosSeqAngAnomaly = mA.c,
                  !.PosSeqMag =
                      IF ~RLess(RAbs(RSub(e.PosSeqMagNew, e.PosSeqMag)),
                                RAbs(e.PosSeqMagRampRate))
                      THEN RAdd(e.PosSeqMag, e.PosSeqMagRampRate) ELSE @],
        RAdd(RAdd(e.PhaseOffset, e.pAngle),
             RMul(RMul(Pi, mA.value), Rat(1, 180))),
        Ts, RunContainer(e.PosSeqMagAnomaly, mA.r, mA.env, Ts))

\* stepThreePhase after the frequency anomaly: mF is what
\* FreqAnomaly.StepAll gave
stepThreePhaseFreq(e, f, Ts, mF) ==
    stepThreePhaseAngle(
        [e EXCEPT !.FreqAnomaly = mF.c,
                  !.pAngle = wrapAngle(
                      RAdd(RMul(RMul(RMul(RAdd(f, mF.value), RInt(2)), Pi),
                                RInt(Ts)), e.pAngle))],
        Ts, RunContainer(e.PosSeqAngAnomaly, mF.r, mF.env, Ts))

\* ThreePhaseEmulation.stepThreePhase(r, f, Ts); the result holds the
\* emulation and the generator after the call
stepThreePhase(e, r, f, Ts, env) ==
    stepThreePhaseFreq(e, f, Ts, RunContainer(e.FreqAnomaly, r, env, Ts))

\* The harmonic arrays of the configurations: none, two that are
\* consistent, and three whose lengths differ
HarmonicArrays ==
    {[Numbers |-> <<>>, Mags |-> <<>>, Angs |-> <<>>],
     [Numbers |-> <<3>>, Mags |-> <<Rat(1, 10)>>, Angs |-> <<Zero>>],
     [Numbers |-> <<3, 5>>, Mags |-> <<Rat(1, 10), Rat(1, 20)>>,
      Angs |-> <<Zero, Rat(1, 2)>>],
     [Numbers |-> <<3, 5>>, Mags |-> <<Rat(1, 10), Rat(1, 20)>>,
      Angs |-> <<Zero>>],
     [Numbers |-> <<3>>, Mags |-> <<Rat(1, 10), Rat(1, 20)>>,
      Angs |-> <<Zero, Rat(1, 6)>>],
     [Numbers |-> <<>>, Mags |-> <<Rat(1, 10)>>, Angs |-> <<Zero>>]}

\* The frequencies of the configurations, in Hz: with Ts = 1 the angle
\* moves on by pi/6 or pi/2 a tick
Frequencies == {Rat(1, 12), Rat(1, 4)}

\* NewEmulator(1, f) with a voltage emulation V: harmonic arrays h, a ramp
\* of the magnitude towards PosSeqMagNew, a fault of fault samples, a
\* member in PhaseAMagAnomaly and two in HarmonicsAnomaly
NewThreePhaseEmulator(f, seed, h, new, fault) ==
    [SamplingRate |-> 1, Fnom |-> f, Ts |-> 1,
     r |-> [seed |-> seed, n |-> 0],
     V |-> [PosSeqMag |-> RInt(10), PhaseOffset |-> Rat(1, 6),
            NegSeqMag |-> Rat(1, 10), NegSeqAng |-> Rat(1, 6),
            ZeroSeqMag |-> Rat(1, 20), ZeroSeqAng |-> Rat(1, 2),
            HarmonicNumbers |-> h.Numbers, HarmonicMags |-> h.Mags,
            HarmonicAngs |-> h.Angs, NoiseMag |-> Rat(1, 100),
            PosSeqMagAnomaly |-> <<>>, PosSeqAngAnomaly |-> <<>>,
            PhaseAMagAnomaly |->
              <<NewTrendAnomaly(TrendParams("a", 0, FALSE, 0, 2, 0, RInt(1),
                                            "flat", FALSE, FALSE)).a>>,
            FreqAnomaly |-> <<>>,
            HarmonicsAnomaly |->
              <<NewTrendAnomaly(TrendParams("h", 0, FALSE, 0, 2, 0, RInt(1),
                                            "linear", FALSE, FALSE)).a,
                NewSpikeAnomaly(SpikeParams("s", 0, FALSE, 0, 2, RInt(1), "",
                                            FALSE, Zero, Rat(1, 2), "")).a>>,
            FaultPosSeqMag |-> RInt(-2), FaultRemainingSamples |-> fault,
            PosSeqMagNew |-> new, PosSeqMagRampRate |-> RInt(1),
            pAngle |-> Zero, A |-> SZero, B |-> SZero, C |-> SZero],
     trace |-> <<>>]

\* Two emulators that differ in their harmonic arrays only: the second has
\* none
InitThree ==
    /\ \E f \in Frequencies, seed \in Seeds, h \in HarmonicArrays,
          new \in {RInt(10), RInt(12)}, fault \in {0, 2} :
          emu = <<NewThreePhaseEmulator(f, seed, h, new, fault),
                  NewThreePhaseEmulator(f, seed,
                      [Numbers |-> <<>>, Mags |-> <<>>, Angs |-> <<>>],
                      new, fault)>>
    /\ heap = <<>>
    /\ container = <<>>
    /\ op = NoOp
    /\ ret = NoRet
    /\ calls = 0
    /\ ts = 0
    /\ previousValue = Zero
    /\ solo = Zero
    /\ pAngle = Zero

\* The state after stepThreePhase of emulator i gave s; trace records the
\* outputs A, B and C
ThreeStepDone(i, s) ==
    /\ emu' = [emu EXCEPT ![i] = [@ EXCEPT !.V = s.e, !.r = s.r,
                                          !.trace = Append(@, <<s.e.A, s.e.B,
                                                                s.e.C>>)]]
    /\ previousValue' = s.previousValue
    /\ ret' = NoRet
    /\ op' = [name |-> "stepThreePhase", p |-> i, key |-> "",
              Ts |-> emu[i].Ts]

\* A call of stepThreePhase on the voltage emulation of emulator i, with
\* the generator, the frequency and the tick period of the emulator
DoStepThreePhase ==
    /\ calls < MaxThreeTicks
    /\ \E i \in 1..2 :
        ThreeStepDone(i, stepThreePhase(emu[i].V, emu[i].r, emu[i].Fnom,
                                        emu[i].Ts,
                                        [previousValue |-> previousValue,
                                         u |-> Zero, norm |-> Zero]))
    /\ calls' = calls + 1
    /\ UNCHANGED <<heap, container, ts, solo, pAngle>>

NextThree == DoStepThreePhase

SpecThree == InitThree /\ [][NextThree]_vars

----------------------------------------------------------------------------

(* SpecPair: a spike and a trend built with the same StartDelay, Duration, *)
(* Repeats and Off, stepped side by side with the same constant tick       *)
(* period; the spike takes its draws from any random source.  heap[1] is   *)
(* the spike and heap[2] the trend; op.p holds the draws the source would  *)
(* give during the call.                                                   *)

PairDraws == [trig : {Zero, Rat(3, 4)}, sign : Uniform, norm : {RInt(2)}]

InitPair ==
    \E N \in 0..MaxRepeats, off \in BOOLEAN,
       sd \in {0, MaxDelay - 1, MaxDelay}, D \in 1..(MaxDuration - 2),
       sign \in {-1, 0, 1}, t \in 1..MaxTs :
        LET s == NewSpikeAnomaly(SpikeParams("s", N, off, sd, D, RInt(2), "",
                                             FALSE, RInt(sign), Rat(1, 2), ""))
            tr == NewTrendAnomaly(TrendParams("t", N, off, sd, D, 0, RInt(2),
                                              "", FALSE, FALSE))
        IN  /\ ~s.err /\ ~tr.err
            /\ heap = <<s.a, tr.a>>
            /\ container = <<>>
            /\ op = NoOp
            /\ ret = NoRet
            /\ calls = 0
            /\ ts = t
            /\ InitRest

StepPair ==
    /\ calls < MaxPairTicks
    /\ \E d \in PairDraws :
        LET s == stepAnomaly(heap[1], ts, d)
            tr == stepAnomaly(heap[2], ts, d)
        IN  /\ heap' = <<s.a, tr.a>>
            /\ ret' = [NoRet EXCEPT !.outs = <<s.out, tr.out>>,
                                    !.draws = s.draws]
            /\ op' = [name |-> "stepAnomaly", p |-> d, key |-> "", Ts |-> ts]
    /\ calls' = calls + 1
    /\ UNCHANGED <<container, ts>>
    /\ UNCHANGED rest

NextPair == StepPair

SpecPair == InitPair /\ [][NextPair]_vars

----------------------------------------------------------------------------

(* SpecSpike: one spike with any of its shaping options (VaryMagnitude,    *)
(* SpikeSign, a magnitude function, a probability function), stepped with  *)
(* a constant tick period and any draws; op.p holds the draws the random   *)
(* source would give during the call.                                      *)

SpikeOptions ==
    {SpikeParams("s", 0, FALSE, sd, D, RInt(2), fn, vary, RInt(sign), prob,
                 pfn) :
        sd \in {0, MaxDelay}, D \in {0, MaxDuration - 2},
        fn \in {"", "linear"}, vary \in BOOLEAN, sign \in {-1, 0, 1},
        prob \in {Zero, Rat(1, 2)}, pfn \in {"", "linear"}}

InitSpike ==
    \E params \in SpikeOptions, t \in 1..MaxTs :
        /\ ~NewSpikeAnomaly(params).err
        /\ heap = <<NewSpikeAnomaly(params).a>>
        /\ container = <<>>
        /\ op = NoOp
        /\ ret = NoRet
        /\ calls = 0
        /\ ts = t
        /\ InitRest

StepSpike ==
    /\ calls < MaxSteps
    /\ \E d \in Draws :
        LET r == stepAnomaly(heap[1], ts, d)
        IN  /\ heap' = <<r.a>>
            /\ ret' = [NoRet EXCEPT !.value = r.out, !.outs = <<r.out>>,
                                    !.draws = r.draws]
            /\ op' = [name |-> "stepAnomaly", p |-> d, key |-> "", Ts |-> ts]
    /\ calls' = calls + 1
    /\ UNCHANGED <<container, ts>>
    /\ UNCHANGED rest

NextSpike == StepSpike

SpecSpike == InitSpike /\ [][NextSpike]_vars

----------------------------------------------------------------------------

(* SpecFuncs: a program that looks shaping functions up by name and calls  *)
(* them with any elapsed time t >= 0, amplitude A and period T > 0.  The   *)
(* random walk is among them, so that the state of the package             *)
(* (previousValue) changes between the calls of the other functions.       *)
(* op.name is the function called and op.p its arguments.                  *)

FuncNames == {"linear", "parabolic", "step", "impulse", "flat", "random_walk"}

FuncAmplitudes == {RInt(-2), Rat(1, 2), RInt(3)}

InitFuncs ==
    /\ heap = <<>>
    /\ container = <<>>
    /\ op = NoOp
    /\ ret = NoRet
    /\ calls = 0
    /\ ts = 0
    /\ InitRest

DoCall ==
    /\ calls < MaxFuncCalls
    /\ \E name \in FuncNames, t \in 0..MaxTime, A \in FuncAmplitudes,
          T \in 1..MaxPeriod :
       \E u \in (IF name = "random_walk" THEN WalkUniform ELSE {Zero}) :
        LET f == GetTrendFunctionFromName(name)
            r == Call(f.fn, t, A, T, [previousValue |-> previousValue,
                                      u |-> u, norm |-> Zero])
        IN  /\ ~f.err
            /\ ret' = [NoRet EXCEPT !.value = r.y, !.fn = f.fn]
            /\ previousValue' = r.previousValue
            /\ op' = [name |-> name, p |-> [t |-> t, A |-> A, T |-> T],
                      key |-> "", Ts |-> 0]
    /\ calls' = calls + 1
    /\ UNCHANGED <<heap, container, ts, solo, emu, pAngle>>

NextFuncs == DoCall

SpecFuncs == InitFuncs /\ [][NextFuncs]_vars

----------------------------------------------------------------------------

(* SpecPeriod: a trend constructed with PeriodDuration 0, then             *)
(* reconfigured with SetDuration and SetPeriodDuration(0) in any order,    *)
(* then stepped with Ts = 1.                                               *)

InitPeriod ==
    /\ \E D \in 1..(MaxDuration - 2), fn \in {"linear", "step"} :
          heap = <<NewTrendAnomaly(TrendParams("t", 0, FALSE, 0, D, 0,
                                               RInt(2), fn, FALSE, FALSE)).a>>
    /\ container = <<>>
    /\ op = NoOp
    /\ ret = NoRet
    /\ calls = 0
    /\ ts = 1
    /\ InitRest

DoSetTrendDuration ==
    /\ calls < MaxOps
    /\ op.name # "stepAnomaly"
    /\ \E D \in -1..(MaxDuration - 2) :
        /\ heap' = <<TrendSetDuration(heap[1], D).a>>
        /\ ret' = [NoRet EXCEPT !.err = TrendSetDuration(heap[1], D).err]
        /\ op' = [name |-> "SetDuration", p |-> D, key |-> "", Ts |-> 0]
    /\ calls' = calls + 1
    /\ UNCHANGED <<container, ts>>
    /\ UNCHANGED rest

DoSetPeriodDuration ==
    /\ calls < MaxOps
    /\ op.name # "stepAnomaly"
    /\ heap' = <<SetPeriodDuration(heap[1], 0).a>>
    /\ ret' = [NoRet EXCEPT !.err = SetPeriodDuration(heap[1], 0).err]
    /\ op' = [name |-> "SetPeriodDuration", p |-> 0, key |-> "", Ts |-> 0]
    /\ calls' = calls + 1
    /\ UNCHANGED <<container, ts>>
    /\ UNCHANGED rest

DoStepPeriod ==
    /\ calls < MaxOps + MaxSteps
    /\ heap' = <<stepAnomaly(heap[1], ts, NoDraw).a>>
    /\ ret' = [NoRet EXCEPT !.value = stepAnomaly(heap[1], ts, NoDraw).out]
    /\ op' = [name |-> "stepAnomaly", p |-> 0, key |-> "", Ts |-> ts]
    /\ calls' = calls + 1
    /\ UNCHANGED <<container, ts>>
    /\ UNCHANGED rest

NextPeriod ==
    \/ DoSetTrendDuration
    \/ DoSetPeriodDuration
    \/ DoStepPeriod

SpecPeriod == InitPeriod /\ [][NextPeriod]_vars

----------------------------------------------------------------------------

(* SpecFault: one Emulator whose voltage emulation has spikes in its       *)
(* containers, a ramp of the magnitude and events started by StartEvent.   *)
(* The durations of the events are MaxEmulatedFaultDurationSamples etc.;   *)
(* the code has 6000 and 8000 samples, the model a few, so that a run      *)
(* reaches the end of an event.                                            *)

MaxEmulatedFaultDurationSamples == 2
MaxEmulatedCapacitorOverCurrentSamples == 3
MaxEmulatedFrequencyDurationSamples == 2

\* Emulator.StartEvent(eventType).  The cases that write to e.I or e.V
\* dereference the pointer: the actions offer them only where it is set.
StartEvent(e, eventType) ==
    CASE eventType = "SinglePhaseFault" ->
            [e EXCEPT
               !.I = [@ EXCEPT !.FaultPhaseAMag = RMul(e.I.PosSeqMag, Rat(6, 5)),
                               !.FaultRemainingSamples =
                                   MaxEmulatedFaultDurationSamples],
               !.V = [@ EXCEPT !.FaultPhaseAMag = RMul(e.V.PosSeqMag, Rat(-1, 5)),
                               !.FaultRemainingSamples =
                                   MaxEmulatedFaultDurationSamples]]
      [] eventType = "ThreePhaseFault" ->
            [e EXCEPT
               !.I = [@ EXCEPT !.FaultPosSeqMag = RMul(e.I.PosSeqMag, Rat(6, 5)),
                               !.FaultRemainingSamples =
                                   MaxEmulatedFaultDurationSamples],
               !.V = [@ EXCEPT !.FaultPosSeqMag = RMul(e.V.PosSeqMag, Rat(-1, 5)),
                               !.FaultRemainingSamples =
                                   MaxEmulatedFaultDurationSamples]]
      [] eventType = "OverVoltage" ->
            [e EXCEPT
               !.V = [@ EXCEPT !.FaultPosSeqMag = RMul(e.V.PosSeqMag, Rat(1, 5)),
                               !.FaultRemainingSamples =
                                   MaxEmulatedFaultDurationSamples]]
      [] eventType = "UnderVoltage" ->
            [e EXCEPT
               !.V = [@ EXCEPT !.FaultPosSeqMag = RMul(e.V.PosSeqMag, Rat(-1, 5)),
                               !.FaultRemainingSamples =
                                   MaxEmulatedFaultDurationSamples]]
      [] eventType = "OverFrequency" ->
            [e EXCEPT !.Fdeviation = Rat(1, 10),
                      !.fDeviationRemainingSamples =
                          MaxEmulatedFrequencyDurationSamples]
      [] eventType = "UnderFrequency" ->
            [e EXCEPT !.Fdeviation = Rat(-1, 10),
                      !.fDeviationRemainingSamples =
                          MaxEmulatedFrequencyDurationSamples]
      [] eventType = "CapacitorOverCurrent" ->
            [e EXCEPT
               !.I = [@ EXCEPT !.FaultPosSeqMag = RMul(e.I.PosSeqMag,
                                                       Rat(1, 100)),
                               !.FaultRemainingSamples =
                                   MaxEmulatedCapacitorOverCurrentSamples]]
      [] OTHER -> e

\* A spike of magnitude M that triggers with probability 1/2 throughout
\* bursts of two seconds
FaultSpike(name, M) ==
    NewSpikeAnomaly(SpikeParams(name, 0, FALSE, 0, 2, M, "", FALSE, Zero,
                                Rat(1, 2), "")).a

\* The containers of the configurations, in the order FreqAnomaly,
\* PosSeqAngAnomaly, PosSeqMagAnomaly, PhaseAMagAnomaly, HarmonicsAnomaly:
\* all empty, a spike in each, a spike in the first and in the last.  The
\* magnitudes keep every angle a multiple of pi/6: 1/4 Hz, 30 degrees.
FaultContainers ==
    {<<<<>>, <<>>, <<>>, <<>>, <<>>>>,
     <<<<FaultSpike("f", Rat(1, 4))>>, <<FaultSpike("g", RInt(30))>>,
       <<FaultSpike("m", RInt(1))>>, <<FaultSpike("a", RInt(1))>>,
       <<FaultSpike("h", Rat(1, 2))>>>>,
     <<<<FaultSpike("f", Rat(1, 4))>>, <<>>, <<>>, <<>>,
       <<FaultSpike("h", Rat(1, 2))>>>>}

\* An Emulator with the voltage emulation V only: harmonic arrays h, the
\* containers cs, and a ramp of the magnitude from 10 towards new at the
\* rate of 1 a tick
NewFaultEmulator(seed, h, new, cs) ==
    [SamplingRate |-> 1, Fnom |-> Rat(1, 12), Ts |-> 1,
     r |-> [seed |-> seed, n |-> 0],
     V |-> [PosSeqMag |-> RInt(10), PhaseOffset |-> Rat(1, 6),
            NegSeqMag |-> Rat(1, 10), NegSeqAng |-> Rat(1, 6),
            ZeroSeqMag |-> Rat(1, 20), ZeroSeqAng |-> Rat(1, 2),
            HarmonicNumbers |-> h.Numbers, HarmonicMags |-> h.Mags,
            HarmonicAngs |-> h.Angs, NoiseMag |-> Rat(1, 100),
            FreqAnomaly |-> cs[1], PosSeqAngAnomaly |-> cs[2],
            PosSeqMagAnomaly |-> cs[3], PhaseAMagAnomaly |-> cs[4],
            HarmonicsAnomaly |-> cs[5],
            FaultPhaseAMag |-> Zero, FaultPosSeqMag |-> Zero,
            FaultRemainingSamples |-> 0,
            PosSeqMagNew |-> new, PosSeqMagRampRate |-> RInt(1),
            pAngle |-> Zero, A |-> SZero, B |-> SZero, C |-> SZero],
     trace |-> <<>>]

InitFault ==
    /\ \E seed \in Seeds, new \in {RInt(8), RInt(10), RInt(12)},
          cs \in FaultContainers,
          h \in {[Numbers |-> <<>>, Mags |-> <<>>, Angs |-> <<>>],
                 [Numbers |-> <<3, 5>>, Mags |-> <<Rat(1, 10), Rat(1, 20)>>,
                  Angs |-> <<Zero, Rat(1, 2)>>]} :
          emu = <<NewFaultEmulator(seed, h, new, cs)>>
    /\ heap = <<>>
    /\ container = <<>>
    /\ op = NoOp
    /\ ret = NoRet
    /\ calls = 0
    /\ ts = 0
    /\ previousValue = Zero
    /\ solo = Zero
    /\ pAngle = Zero

\* StartEvent(OverVoltage) or StartEvent(UnderVoltage); ts counts the
\* steps since the event
DoStartVoltageEvent ==
    /\ calls < MaxFaultTicks
    /\ \E eventType \in {"OverVoltage", "UnderVoltage"} :
        /\ emu' = <<StartEvent(emu[1], eventType)>>
        /\ op' = [name |-> "StartEvent", p |-> 1, key |-> eventType,
                  Ts |-> 0]
    /\ ret' = NoRet
    /\ calls' = calls + 1
    /\ ts' = 0
    /\ UNCHANGED <<heap, container, previousValue, solo, pAngle>>

\* A call of stepThreePhase on the voltage emulation, with the generator,
\* the frequency and the tick period of the emulator
DoStepFault ==
    /\ calls < MaxFaultTicks
    /\ ThreeStepDone(1, stepThreePhase(emu[1].V, emu[1].r, emu[1].Fnom,
                                       emu[1].Ts,
                                       [previousValue |-> previousValue,
                                        u |-> Zero, norm |-> Zero]))
    /\ calls' = calls + 1
    /\ ts' = ts + 1
    /\ UNCHANGED <<heap, container, solo, pAngle>>

NextFault ==
    \/ DoStartVoltageEvent
    \/ DoStepFault

SpecFault == InitFault /\ [][NextFault]_vars

----------------------------------------------------------------------------

(* SpecStep: one Emulator with any of the sub-emulations V, I, T and Sag.  *)
(* A pointer is a sequence: empty for nil, else holding the emulation.     *)
(* Ts = 5 and Fnom = 1/60 Hz keep every angle a multiple of pi/6, also     *)
(* with a frequency deviation of 0.1 Hz.  trace records the frequency that *)
(* each Step handed to the sub-emulations, event the last frequency event  *)
(* started and the length of trace at that moment.                         *)

\* SagEmulation.stepSag(r): r is seeded again from the clock (seed), then
\* gives three uniform draws
stepSag(g, r, seed) ==
    [g |-> [g EXCEPT
              !.TotalStrain =
                  RMul(g.MeanStrain, PCGFloat64([seed |-> seed, n |-> 0])),
              !.Sag = RMul(g.MeanSag, PCGFloat64([seed |-> seed, n |-> 1])),
              !.CalculatedTemperature =
                  RMul(g.MeanCalculatedTemperature,
                       PCGFloat64([seed |-> seed, n |-> 2]))],
     r |-> [seed |-> seed, n |-> 3]]

\* The state outside that a sub-emulation of s sees
EnvOf(s) == [previousValue |-> s.previousValue, u |-> Zero, norm |-> Zero]

\* s after a sub-emulation gave t
ThreePhasePut(s, which, t) ==
    [s EXCEPT !.e = [@ EXCEPT ![which] = <<t.e>>, !.r = t.r],
              !.previousValue = t.previousValue]

TemperaturePut(s, t) ==
    [s EXCEPT !.e = [@ EXCEPT !.T = <<t.t>>, !.r = t.r],
              !.previousValue = t.previousValue]

SagPut(s, t) == [s EXCEPT !.e = [@ EXCEPT !.Sag = <<t.g>>, !.r = t.r]]

\* if e.V != nil { e.V.stepThreePhase(e.r, f, e.Ts, e.SmpCnt) }
VStepped(s, f) ==
    IF s.e.V = <<>> THEN s
    ELSE ThreePhasePut(s, "V", stepThreePhase(s.e.V[1], s.e.r, f, s.e.Ts,
                                              EnvOf(s)))

\* if e.I != nil { e.I.stepThreePhase(e.r, f, e.Ts, e.SmpCnt) }
IStepped(s, f) ==
    IF s.e.I = <<>> THEN s
    ELSE ThreePhasePut(s, "I", stepThreePhase(s.e.I[1], s.e.r, f, s.e.Ts,
                                              EnvOf(s)))

\* if e.T != nil { e.T.stepTemperature(e.r, e.Ts) }
TStepped(s) ==
    IF s.e.T = <<>> THEN s
    ELSE TemperaturePut(s, stepTemperature(s.e.T[1], s.e.r, s.e.Ts, EnvOf(s)))

\* if e.Sag != nil { e.Sag.stepSag(e.r) }
SagStepped(s, seed) ==
    IF s.e.Sag = <<>> THEN s ELSE SagPut(s, stepSag(s.e.Sag[1], s.e.r, seed))

\* e.SmpCnt++, wrapped to 0 at SamplingRate
Counted(s) ==
    [s EXCEPT !.e = [@ EXCEPT !.SmpCnt = IF @ + 1 >= s.e.SamplingRate
                                         THEN 0 ELSE @ + 1]]

\* The start of Emulator.Step: f is the frequency for the sub-emulations,
\* then comes the countdown of the frequency deviation
Deviated(e, pv, f) ==
    [e |-> [e EXCEPT
              !.fDeviationRemainingSamples = IF @ > 0 THEN @ - 1 ELSE @,
              !.Fdeviation = IF e.fDeviationRemainingSamples = 1
                             THEN Zero ELSE @],
     previousValue |-> pv, f |-> f]

\* The sub-emulations stepped with the current emulation before the
\* voltage emulation
SubEmulationsStepped_CurrentFirst(s, f, seed) ==
    SagStepped(TStepped(VStepped(IStepped(s, f), f)), seed)

\* The sub-emulations of Emulator.Step, in the order V, I, T, Sag
SubEmulationsStepped(s, f, seed) ==
    SagStepped(TStepped(IStepped(VStepped(s, f), f)), seed)

\* Emulator.Step with the frequency read after the countdown
EmulatorStep_CountdownFirst(e, pv, seed) ==
    Counted(SubEmulationsStepped(
                Deviated(e, pv, RAdd(e.Fnom,
                                     IF e.fDeviationRemainingSamples = 1
                                     THEN Zero ELSE e.Fdeviation)),
                RAdd(e.Fnom, IF e.fDeviationRemainingSamples = 1
                             THEN Zero ELSE e.Fdeviation), seed))

\* Emulator.Step with f = e.Fnom + e.Fdeviation read before the countdown;
\* the result holds the emulator after the call and f
EmulatorStep(e, pv, seed) ==
    Counted(SubEmulationsStepped(
                Deviated(e, pv, RAdd(e.Fnom, e.Fdeviation)),
                RAdd(e.Fnom, e.Fdeviation), seed))

\* A three-phase emulation without harmonics, ramp and fault, with the
\* members c in PhaseAMagAnomaly
NewThreePhase(PosSeqMag, c) ==
    [PosSeqMag |-> PosSeqMag, PhaseOffset |-> Rat(1, 6),
     NegSeqMag |-> Rat(1, 10), NegSeqAng |-> Rat(1, 6),
     ZeroSeqMag |-> Rat(1, 20), ZeroSeqAng |-> Rat(1, 2),
     HarmonicNumbers |-> <<>>, HarmonicMags |-> <<>>, HarmonicAngs |-> <<>>,
     NoiseMag |-> Rat(1, 100),
     FreqAnomaly |-> <<>>, PosSeqAngAnomaly |-> <<>>,
     PosSeqMagAnomaly |-> <<>>, PhaseAMagAnomaly |-> c,
     HarmonicsAnomaly |-> <<>>,
     FaultPhaseAMag |-> Zero, FaultPosSeqMag |-> Zero,
     FaultRemainingSamples |-> 0,
     PosSeqMagNew |-> PosSeqMag, PosSeqMagRampRate |-> Zero,
     pAngle |-> Zero, A |-> SZero, B |-> SZero, C |-> SZero]

\* A spike that triggers with probability 1/2 throughout bursts of two
\* ticks of 5 seconds
StepSpike5(name) ==
    NewSpikeAnomaly(SpikeParams(name, 0, FALSE, 0, 10, RInt(1), "", FALSE,
                                Zero, Rat(1, 2), "")).a

\* The sub-emulations a program may configure
VoltageEmulation == NewThreePhase(RInt(10), <<>>)
CurrentEmulation == NewThreePhase(RInt(5), <<StepSpike5("s")>>)
TemperatureEmulation ==
    [MeanTemperature |-> RInt(10), NoiseMag |-> Rat(1, 10),
     Anomaly |-> <<StepSpike5("t")>>, T |-> Zero]
SagEmulation ==
    [MeanStrain |-> RInt(100), MeanSag |-> Rat(1, 2),
     MeanCalculatedTemperature |-> RInt(30),
     TotalStrain |-> Zero, Sag |-> Zero, CalculatedTemperature |-> Zero]

InitStep ==
    /\ \E seed \in Seeds, SamplingRate \in {1, 3},
          V \in {<<>>, <<VoltageEmulation>>},
          I \in {<<>>, <<CurrentEmulation>>},
          T \in {<<>>, <<TemperatureEmulation>>},
          Sag \in {<<>>, <<SagEmulation>>} :
          emu = <<[SamplingRate |-> SamplingRate, Ts |-> 5,
                   Fnom |-> Rat(1, 60), Fdeviation |-> Zero,
                   V |-> V, I |-> I, T |-> T, Sag |-> Sag,
                   SmpCnt |-> 0, fDeviationRemainingSamples |-> 0,
                   r |-> [seed |-> seed, n |-> 0],
                   trace |-> <<>>, event |-> <<>>]>>
    /\ heap = <<>>
    /\ container = <<>>
    /\ op = NoOp
    /\ ret = NoRet
    /\ calls = 0
    /\ ts = 0
    /\ previousValue = Zero
    /\ solo = Zero
    /\ pAngle = Zero

\* StartEvent(OverFrequency), StartEvent(UnderFrequency) and, where both
\* three-phase emulations are set, StartEvent(ThreePhaseFault)
DoStartEvent ==
    /\ calls < MaxStepCalls
    /\ \E eventType \in {"OverFrequency", "UnderFrequency",
                         "ThreePhaseFault"} :
        /\ eventType = "ThreePhaseFault" =>
               emu[1].V # <<>> /\ emu[1].I # <<>>
        /\ emu' = <<[StartEvent(
                        [emu[1] EXCEPT
                           !.V = IF @ = <<>> THEN @ ELSE @[1],
                           !.I = IF @ = <<>> THEN @ ELSE @[1]],
                        eventType)
                     EXCEPT !.V = IF emu[1].V = <<>> THEN <<>> ELSE <<@>>,
                            !.I = IF emu[1].I = <<>> THEN <<>> ELSE <<@>>,
                            !.event = IF eventType = "ThreePhaseFault"
                                      THEN @
                                      ELSE <<eventType, Len(emu[1].trace)>>]>>
        /\ op' = [name |-> "StartEvent", p |-> 1, key |-> eventType,
                  Ts |-> 0]
    /\ ret' = NoRet
    /\ calls' = calls + 1
    /\ UNCHANGED <<heap, container, ts, previousValue, solo, pAngle>>

\* The state after Emulator.Step gave s; s.f is the frequency it handed to
\* the sub-emulations
EmulatorStepDone(s) ==
    /\ emu' = <<[s.e EXCEPT !.trace = Append(@, s.f)]>>
    /\ previousValue' = s.previousValue
    /\ ret' = [NoRet EXCEPT !.value = s.f]
    /\ op' = [name |-> "Step", p |-> 1, key |-> "", Ts |-> emu[1].Ts]

\* Emulator.Step; ts records the seed that the clock gave to stepSag
DoEmulatorStep ==
    /\ calls < MaxStepCalls
    /\ \E seed \in (IF emu[1].Sag = <<>> THEN {1} ELSE Seeds) :
        /\ EmulatorStepDone(EmulatorStep(emu[1], previousValue, seed))
        /\ ts' = seed
    /\ calls' = calls + 1
    /\ UNCHANGED <<heap, container, solo, pAngle>>

NextStep ==
    \/ DoStartEvent
    \/ DoEmulatorStep

SpecStep == InitStep /\ [][NextStep]_vars

----------------------------------------------------------------------------

(* SpecShare: the example of the README.  The program constructs a spike   *)
(* and a ramp, puts the spike into the PhaseAMagAnomaly container of the   *)
(* current emulation (container[1]) and adds anomalies to the container of *)
(* the temperature emulation (container[2]).  A container holds            *)
(* references into heap; each sub-emulation steps its own container.       *)

Readme ==
    <<NewSpikeAnomaly(SpikeParams("spikes", 0, FALSE, 0, 0, RInt(1), "",
                                  FALSE, Zero, Rat(1, 2), "")).a,
      NewTrendAnomaly(TrendParams("ramp", 0, FALSE, 0, 2, 0, RInt(5),
                                  "linear", FALSE, FALSE)).a>>

InitShare ==
    /\ heap = Readme
    /\ container = <<<<1>>, <<>>>>
    /\ op = NoOp
    /\ ret = NoRet
    /\ calls = 0
    /\ ts = 1
    /\ InitRest

\* container.AddAnomaly(spikes), container.AddAnomaly(ramp)
DoAddShared ==
    /\ \E p \in 1..Len(heap) :
        LET r == AddAnomaly(container[2], heap, p)
        IN  /\ container' = [container EXCEPT ![2] = r.c]
            /\ ret' = [NoRet EXCEPT !.err = r.err]
            /\ op' = [name |-> "AddAnomaly", p |-> 2, key |-> GetName(heap[p]),
                      Ts |-> 0]
    /\ UNCHANGED <<heap, calls, ts>>
    /\ UNCHANGED rest

\* StepAll of container k, as stepThreePhase (k = 1) and stepTemperature
\* (k = 2) call it
DoStepShared ==
    /\ calls < MaxShareSteps
    /\ \E k \in 1..2 :
        \E rnd \in RndFor(container[k], heap) :
            LET r == StepAll(container[k], heap, ts, rnd)
            IN  /\ heap' = r.heap
                /\ ret' = [NoRet EXCEPT !.value = r.value, !.outs = r.outs,
                                        !.log = r.log, !.draws = r.draws]
                /\ op' = [name |-> "StepAll", p |-> k, key |-> "", Ts |-> ts]
    /\ calls' = calls + 1
    /\ UNCHANGED <<container, ts>>
    /\ UNCHANGED rest

NextShare ==
    \/ DoAddShared
    \/ DoStepShared

SpecShare == InitShare /\ [][NextShare]_vars

----------------------------------------------------------------------------

(* Claims about one anomaly                                                *)

\* The timing counters and flags of an anomaly
Timing(a) ==
    <<a.Off, a.isAnomalyActive, a.startDelayIndex, a.elapsedActivatedIndex,
      a.elapsedActivatedTime, a.countRepeats>>

\* The case of C1: a plain linear trend (period = duration) that is switched
\* on, has no start delay, repeats for ever, has magnitude M > 0 and a burst
\* of n = int(duration/ts) >= 1 ticks.
C1_Case ==
    LET a == heap[1]
    IN  /\ a.magFuncName = "linear" /\ a.periodDuration = a.duration
        /\ ~a.InvertTrend /\ ~a.ReverseTrend /\ ~a.Off
        /\ a.startDelay = 0 /\ a.Repeats = 0
        /\ RGreater(a.Magnitude, Zero)
        /\ IntDiv(a.duration, ts) >= 1

\* C1: under SpecTrend, in the case C1_Case, the k-th call of stepAnomaly
\* (k = 0, 1, ...) returns (M/D)*(k mod n)*Ts, which is below M (so the values
\* rise from 0 inside a burst and fall back to 0 on the call after n calls,
\* with no dormant tick in between), and after it countRepeats is
\* floor((k+1)/n).
C1_LinearTrendSequence ==
    (C1_Case /\ calls >= 1) =>
        LET a == heap[1]
            n == IntDiv(a.duration, ts)
            k == calls - 1
        IN  /\ ret.outs[1] = Rat(a.Magnitude.n * (k % n) * ts,
                                 a.Magnitude.d * a.duration)
            /\ RLess(ret.outs[1], a.Magnitude)
            /\ a.countRepeats = (k + 1) \div n

\* A plain linear trend in its third burst, with a value above 0
C1_Witness ==
    /\ C1_Case /\ calls >= 1
    /\ heap[1].countRepeats >= 2
    /\ IntDiv(heap[1].duration, ts) >= 3
    /\ RGreater(ret.outs[1], Zero)

\* C2: under SpecTrend, the four trends that differ only in InvertTrend and
\* ReverseTrend have the same timing counters after every call, and on every
\* active tick, with v the value of the shaping function at the elapsed time
\* of the tick, they return v, -v, M - v and -(M - v).  With Ts = 1, D = 5,
\* M = 10 and the linear function (no delay, no repeat limit) the k-th values
\* are 2*(k mod 5), -2*(k mod 5), 10 - 2*(k mod 5) and -(10 - 2*(k mod 5)).
C2_InvertReverse ==
    LET a == heap[1]
        M == a.Magnitude
        v == Apply(a.magFuncName, a.elapsedActivatedTime, M, a.periodDuration)
        j == (calls - 1) % 5
    IN  /\ \A i \in 2..4 : Timing(heap[i]) = Timing(a)
        /\ (calls >= 1 /\ a.isAnomalyActive) =>
              ret.outs = <<v, RNeg(v), RSub(M, v), RNeg(RSub(M, v))>>
        /\ (/\ calls >= 1 /\ ts = 1 /\ a.duration = 5 /\ M = RInt(10)
            /\ a.magFuncName = "linear" /\ a.periodDuration = 5
            /\ a.startDelay = 0 /\ a.Repeats = 0 /\ ~a.Off) =>
              ret.outs = <<RInt(2 * j), RInt(-2 * j), RInt(10 - 2 * j),
                           RInt(2 * j - 10)>>

\* The test's trend (Ts = 1, D = 5, M = 10) on the fourth tick of its second
\* burst: the values are 6, -6, 4 and -4
C2_Witness ==
    /\ ts = 1 /\ heap[1].duration = 5 /\ heap[1].Magnitude = RInt(10)
    /\ heap[1].magFuncName = "linear" /\ heap[1].periodDuration = 5
    /\ heap[1].isAnomalyActive /\ heap[1].countRepeats = 1
    /\ ret.outs = <<RInt(6), RInt(-6), RInt(4), RInt(-4)>>

\* C3: under SpecTrend, for a trend with Repeats = N > 0 and a burst of
\* int(duration/ts) >= 1 ticks: a call made while it is on and fewer than N
\* bursts are complete leaves it on; the call made while it is on and N
\* bursts are complete switches it off and returns 0; every call made while
\* it is off returns 0 and leaves it off; and the last two leave countRepeats
\* as it is.
C3_RepeatsExhaust ==
    [][LET a == heap[1]
           b == heap'[1]
       IN  (a.Repeats > 0 /\ IntDiv(a.duration, ts) >= 1) =>
             /\ (~a.Off /\ a.countRepeats < a.Repeats) => ~b.Off
             /\ (~a.Off /\ a.countRepeats = a.Repeats) =>
                   /\ b.Off /\ ret'.outs[1] = Zero
                   /\ b.countRepeats = a.Repeats
             /\ a.Off =>
                   /\ b.Off /\ ret'.outs[1] = Zero
                   /\ b.countRepeats = a.countRepeats]_vars

\* A trend with Repeats = 2 and bursts of two ticks, four ticks after its
\* second burst ended: it is off and has counted two bursts
C3_Witness ==
    /\ heap[1].Repeats = 2 /\ heap[1].countRepeats = 2 /\ heap[1].Off
    /\ heap[1].startDelay = 0 /\ IntDiv(heap[1].duration, ts) = 2
    /\ calls = 8 /\ ret.outs[1] = Zero

\* C4: under SpecAnomaly (a trend or a spike, stepped with any tick periods
\* and any random draws), countRepeats <= Repeats whenever Repeats > 0.
C4_RepeatCountBounded ==
    heap[1].Repeats > 0 => heap[1].countRepeats <= heap[1].Repeats

\* A spike that has used up its two repeats
C4_Witness ==
    /\ heap[1].typeName = "spike"
    /\ heap[1].Repeats = 2 /\ heap[1].countRepeats = 2 /\ heap[1].Off

\* C5: under SpecAnomaly, a stepAnomaly call on an anomaly whose Off is true
\* returns 0, consumes no random draw and changes no field of the anomaly.
C5_OffIsInert ==
    [][heap[1].Off =>
          /\ heap' = heap
          /\ ret'.value = Zero /\ ret'.outs = <<Zero>>
          /\ ret'.draws = 0]_vars

\* A spike constructed Off with probability 1/2 and no start delay, after
\* three calls: still in its constructed state
C5_Witness ==
    /\ heap[1].typeName = "spike" /\ heap[1].Off /\ calls = 3
    /\ heap[1].probability = Rat(1, 2) /\ heap[1].startDelay = 0
    /\ Timing(heap[1]) = <<TRUE, FALSE, 0, 0, 0, 0>>

----------------------------------------------------------------------------
(* Claims about the Container                                              *)

\* Whether some member of the container has the name
Named(name) == \E i \in 1..Len(container) : heap[container[i]].name = name

\* The sum of a sequence of values
RECURSIVE SumSeq(_)
SumSeq(q) == IF q = <<>> THEN Zero ELSE RAdd(q[1], SumSeq(Tail(q)))

\* C6: under Spec, AddAnomaly(a) returns an error and leaves the container
\* (length, members, order) as it is whenever a member already has a's name,
\* whatever the two types and also for the empty name; otherwise it returns
\* no error and the container is the old one with a appended.
C6_AddRejectsDuplicateName ==
    [][op'.name = "AddAnomaly" =>
          /\ heap' = heap
          /\ IF Named(heap[op'.p].name)
             THEN ret'.err /\ container' = container
             ELSE ~ret'.err /\ container' = Append(container, op'.p)]_vars

\* The spike named "a" was refused by a container that holds the unnamed
\* trend and the trend named "a"
C6_Witness ==
    /\ op.name = "AddAnomaly" /\ op.p = 2 /\ ret.err
    /\ container = <<3, 1>>

\* C7 as claimed: after any sequence of AddAnomaly and UpdateAnomalyByName
\* calls no two members of the container have the same name.
C7_UniqueNames ==
    \A i, j \in 1..Len(container) :
        i # j => heap[container[i]].name # heap[container[j]].name

\* C8: under Spec, UpdateAnomalyByName(name, new) returns an error and leaves
\* the container and its members as they are when no member has the name,
\* and also when no member that has the name has new's type;
\* GetAnomalyByName(name) returns nil when no member has the name.
C8_UpdateAndGetMisses ==
    [][/\ (/\ op'.name = "UpdateAnomalyByName"
           /\ \/ ~Named(op'.key)
              \/ \A i \in 1..Len(container) :
                    heap[container[i]].name = op'.key =>
                       heap[container[i]].typeName # heap[op'.p].typeName) =>
             ret'.err /\ container' = container /\ heap' = heap
       /\ (op'.name = "GetAnomalyByName" /\ ~Named(op'.key)) =>
             ret'.found = 0 /\ container' = container /\ heap' = heap]_vars

\* The container holds the trend named "a" alone and refused to replace it
\* by the spike named "a"
C8_Witness ==
    /\ op.name = "UpdateAnomalyByName" /\ op.key = "a" /\ op.p = 2
    /\ container = <<1>> /\ ret.err

\* C9 as claimed: when UpdateAnomalyByName(name, new) succeeds, the first
\* slot that held a member with the name holds new, the length is unchanged,
\* every other slot and every anomaly is as before, and GetAnomalyByName(name)
\* on the container after the call returns new.
C9_UpdateReplaces ==
    [][(op'.name = "UpdateAnomalyByName" /\ ~ret'.err) =>
          LET i == CHOOSE k \in 1..Len(container) :
                      /\ heap[container[k]].name = op'.key
                      /\ \A m \in 1..(k - 1) :
                            heap[container[m]].name # op'.key
          IN  /\ Named(op'.key)
              /\ container' = [container EXCEPT ![i] = op'.p]
              /\ heap' = heap
              /\ GetAnomalyByName(container', heap', op'.key) = op'.p]_vars

\* C10: under Spec, StepAll calls stepAnomaly once for every slot, in index
\* order (the pointers stepped, in the order of the calls, are the container
\* itself), and returns the sum of the values the calls returned; a member
\* that holds one slot, be it dormant, exhausted or Off, is after the call
\* what one stepAnomaly call makes of it; an anomaly that is not a member is
\* untouched; on an empty container the result is 0 and no draw is consumed.
C10_StepAllStepsEveryMember ==
    [][op'.name = "StepAll" =>
          /\ ret'.log = container
          /\ Len(ret'.outs) = Len(container)
          /\ ret'.value = SumSeq(ret'.outs)
          /\ \A i \in 1..Len(container) :
                (\A j \in 1..Len(container) :
                    container[j] = container[i] => j = i) =>
                   \E d \in ContainerDraws :
                      LET r == stepAnomaly(heap[container[i]], op'.Ts, d)
                      IN  /\ heap'[container[i]] = r.a
                          /\ ret'.outs[i] = r.out
          /\ \A p \in 1..Len(heap) :
                (\A i \in 1..Len(container) : container[i] # p) =>
                   heap'[p] = heap[p]
          /\ container = <<>> =>
                ret'.value = Zero /\ ret'.draws = 0 /\ heap' = heap]_vars

\* The third StepAll of a container that holds the trend named "a", switched
\* off by the call before, and the spike, which triggered: three draws were
\* consumed and the sum is the spike's value
C10_Witness ==
    /\ op.name = "StepAll" /\ calls = 3 /\ container = <<1, 2>>
    /\ heap[1].Off /\ heap[1].countRepeats = 1
    /\ ret.log = <<1, 2>> /\ ret.draws = 3
    /\ ret.outs[1] = Zero /\ ret.value = ret.outs[2] /\ ret.value # Zero

----------------------------------------------------------------------------
(* Claims about construction                                               *)

\* A function name that the registry cannot resolve
Unregistered(name) == name # "" /\ name \notin mathsFunctions

\* C11: NewTrendAnomaly returns an error and nil when StartDelay < 0, when
\* Duration < 0 or when MagFunc is a non-empty unregistered name; an empty
\* MagFunc selects "linear"; every trend that exists, after construction,
\* after a setter and after a step, carries a registered function name.
C11_NewTrendValidates ==
    [][/\ op'.name = "NewTrendAnomaly" =>
            /\ (\/ op'.p.StartDelay < 0
                \/ op'.p.Duration < 0
                \/ Unregistered(op'.p.MagFuncName))
                  => ret'.err /\ heap' = <<>>
            /\ ~ret'.err /\ op'.p.MagFuncName = ""
                  => heap'[1].magFuncName = "linear"
       /\ heap' # <<>> /\ heap'[1].typeName = "trend"
            => heap'[1].magFuncName \in mathsFunctions]_vars

C11_Witness ==
    /\ op.name = "NewTrendAnomaly"
    /\ op.p.MagFuncName = "nosuch"
    /\ op.p.StartDelay >= 0
    /\ op.p.Duration > 0
    /\ op.p.PeriodDuration >= 0
    /\ ret.err
    /\ heap = <<>>

SpikeRejected(params) ==
    \/ params.StartDelay < 0
    \/ RLess(params.Probability, Zero)
    \/ RLess(params.SpikeSign, RInt(-1))
    \/ RGreater(params.SpikeSign, RInt(1))
    \/ Unregistered(params.MagFuncName)
    \/ Unregistered(params.ProbFuncName)
    \/ params.Duration = 0 /\ params.MagFuncName # ""

\* C13: NewSpikeAnomaly returns an error and nil for a negative StartDelay,
\* a negative Probability, a SpikeSign outside [-1, 1], a non-empty
\* unregistered MagFunc or ProbFunc, or Duration = 0 together with a
\* magnitude function; otherwise it returns a spike whose fields equal the
\* parameters, Duration 0 being stored as -1.
C13_NewSpikeValidates ==
    [][op'.name = "NewSpikeAnomaly" =>
        LET params == op'.p
        IN  IF SpikeRejected(params) THEN ret'.err /\ heap' = <<>>
            ELSE /\ ~ret'.err
                 /\ heap' =
                      <<[ZeroAnomaly EXCEPT
                           !.name = params.Name,
                           !.typeName = "spike",
                           !.startDelay = params.StartDelay,
                           !.duration = IF params.Duration = 0 THEN -1
                                        ELSE params.Duration,
                           !.Repeats = params.Repeats,
                           !.Off = params.Off,
                           !.Magnitude = params.Magnitude,
                           !.magFuncName = params.MagFuncName,
                           !.VaryMagnitude = params.VaryMagnitude,
                           !.spikeSign = params.SpikeSign,
                           !.probability = params.Probability,
                           !.probFuncName = params.ProbFuncName]>>]_vars

C13_Witness ==
    /\ op.name = "NewSpikeAnomaly"
    /\ op.p.Duration = 0
    /\ op.p.SpikeSign = Rat(1, 2)
    /\ op.p.ProbFuncName = "flat"
    /\ ~ret.err
    /\ heap # <<>>
    /\ heap[1].duration = -1
    /\ heap[1].probFuncName = "flat"

----------------------------------------------------------------------------
(* Claims about spikes and the registry                                    *)

\* C14: a continuous spike (duration stored as -1) never completes a burst:
\* no stepAnomaly call changes countRepeats, resets startDelayIndex or
\* sets Off.
C14_ContinuousNeverCompletes ==
    [][heap[1].typeName = "spike" /\ heap[1].duration = -1 =>
        /\ heap'[1].countRepeats = heap[1].countRepeats
        /\ heap'[1].startDelayIndex >= heap[1].startDelayIndex
        /\ heap'[1].Off = heap[1].Off]_vars

\* C15: a spike with probability 0 and no probability function returns 0
\* from every stepAnomaly call and is never active after a call, whatever
\* the uniform draws in [0, 1) are.
C15_ZeroProbabilityNeverFires ==
    /\ op.name = "stepAnomaly"
    /\ heap[1].typeName = "spike"
    /\ heap[1].probability = Zero
    /\ heap[1].probFuncName = ""
    => ret.value = Zero /\ ~heap[1].isAnomalyActive

\* C16: the lookup returns "linear" and no error for the empty name, the
\* registered function and no error for a registered name, and an error
\* and no function for every other name.
C16_LookupDefaultsToLinear ==
    op.name = "GetTrendFunctionFromName" =>
        IF op.key = "" THEN ~ret.err /\ ret.fn = "linear"
        ELSE IF op.key \in mathsFunctions THEN ~ret.err /\ ret.fn = op.key
        ELSE ret.err /\ ret.fn = ""

----------------------------------------------------------------------------
(* Claims about the random walk                                            *)

RLeq(x, y) == ~RLess(y, x)

\* C17: with one amplitude A > 0 in use, every value the random walk
\* returns lies in [-A, A], two consecutive returned values differ by at
\* most A/20, and the walk value persists: the value returned is the value
\* kept, and a call that does not move (t = 0) returns the value kept by the
\* call before.
C17_WalkBoundedSmallSteps ==
    [][op'.name = "stepAnomaly" =>
        LET A == heap[1].Magnitude
        IN  /\ RLeq(RNeg(A), ret'.value) /\ RLeq(ret'.value, A)
            /\ RLeq(RAbs(RSub(ret'.value, ret.value)), Rat(A.n, A.d * 20))
            /\ ret'.value = previousValue'
            /\ heap'[1].elapsedActivatedTime = 0
                  => ret'.value = ret.value]_vars

C17_Witness ==
    /\ op.name = "stepAnomaly"
    /\ heap[1].Magnitude = RInt(1)
    /\ heap[1].elapsedActivatedTime # 0
    /\ ret.value = RInt(-1)
    /\ previousValue = RInt(-1)
    /\ calls = MaxWalk

\* C18: two anomalies that use "random_walk" have independent walks: the
\* value the first one obtains from a step is the value it would obtain
\* had the second one never been stepped.
C18_WalksIndependent ==
    op.name = "stepAnomaly" /\ op.p = 1 => ret.value = solo

----------------------------------------------------------------------------
(* Claims about the Emulator                                               *)

\* C19: two Emulator instances with the same configuration and the same
\* seed produce the same outputs, step for step, however their Step calls
\* are interleaved.
C19_SameSeedSameOutputs ==
    emu[1].r.seed = emu[2].r.seed =>
        \A k \in 1..Len(emu[1].trace) :
            k <= Len(emu[2].trace) => emu[1].trace[k] = emu[2].trace[k]

\* C21: under SpecThree, a call of stepThreePhase on an emulation whose
\* HarmonicNumbers, HarmonicMags and HarmonicAngs do not all have the same
\* length adds no harmonics to A, B and C: tick for tick the outputs are
\* those of the emulation with the same configuration, seed and frequency
\* and no harmonic arrays, i.e. positive plus negative plus zero sequence
\* plus noise.  And every call, whatever the arrays, steps each member of
\* HarmonicsAnomaly exactly once, with the draws the generator gives at that
\* point.
C21_MismatchedHarmonicsOmitted ==
    [][op'.name = "stepThreePhase" =>
        LET v == emu[op'.p].V
            w == emu'[op'.p].V
            x == emu'[1].V
        IN  /\ w.HarmonicsAnomaly =
                 <<trendStepAnomaly(v.HarmonicsAnomaly[1], op'.Ts).a,
                   spikeStepAnomaly(v.HarmonicsAnomaly[2], op'.Ts,
                                    SpikeDraws(emu[op'.p].r)).a>>
            /\ ~(/\ Len(x.HarmonicNumbers) = Len(x.HarmonicMags)
                 /\ Len(x.HarmonicNumbers) = Len(x.HarmonicAngs)) =>
                  \A k \in 1..Len(emu'[1].trace) :
                      k <= Len(emu'[2].trace) =>
                          emu'[1].trace[k] = emu'[2].trace[k]]_vars

\* An emulation with one harmonic number, two magnitudes and two angles,
\* two ticks on: its outputs are those of the emulation without harmonics,
\* and the trend in HarmonicsAnomaly has completed its burst of two ticks
C21_Witness ==
    /\ op.name = "stepThreePhase"
    /\ Len(emu[1].V.HarmonicNumbers) = 1 /\ Len(emu[1].V.HarmonicAngs) = 2
    /\ Len(emu[1].trace) = 2 /\ emu[2].trace = emu[1].trace
    /\ emu[1].V.HarmonicsAnomaly[1].countRepeats = 1
    /\ emu[1].V.HarmonicsAnomaly[1].elapsedActivatedTime = 1
    /\ emu[1].V.A # SZero

\* C22: under SpecEmu, a step of the temperature emulation sets T to
\* MeanTemperature + g*NoiseMag*MeanTemperature + Anomaly.StepAll(r, Ts),
\* where g is one normal draw taken from r before the container is stepped
\* (the members take their draws from r after it; the shaping function of
\* the trend takes its own from the process-wide source).  With NoiseMag = 0
\* and an empty container T = MeanTemperature on every tick.
C22_TemperatureStep ==
    [][op'.name = "Step" =>
        LET e == emu[op'.p]
            f == emu'[op'.p]
            t == e.T
            r1 == [e.r EXCEPT !.n = @ + 1]
            base == RAdd(t.MeanTemperature,
                         RMul(RMul(PCGNormFloat64(e.r), t.NoiseMag),
                              t.MeanTemperature))
        IN  /\ t.Anomaly = <<>> => f.T.T = base /\ f.r = r1
            /\ (t.Anomaly = <<>> /\ t.NoiseMag = Zero) =>
                  f.T.T = t.MeanTemperature
            /\ Len(t.Anomaly) = 2 =>
                  \E g \in GlobalDraws :
                    LET env == [previousValue |-> previousValue,
                                u |-> g.u, norm |-> g.norm]
                        a == trendStepAnomalyGlobal(t.Anomaly[1], e.Ts, env)
                        b == spikeStepAnomaly(t.Anomaly[2], e.Ts,
                                              SpikeDraws(r1))
                    IN  /\ f.T.T = RAdd(base, RAdd(a.out, b.out))
                        /\ f.T.Anomaly = <<a.a, b.a>>
                        /\ f.r = [r1 EXCEPT !.n = @ + b.draws]]_vars

\* An emulator whose trend and spike both gave a value on a later tick, with
\* a temperature that is neither the mean nor the mean plus the trend
C22_Witness ==
    /\ op.name = "Step"
    /\ LET e == emu[op.p]
       IN  /\ Len(e.T.Anomaly) = 2 /\ Len(e.trace) >= 2
           /\ e.T.Anomaly[1].magFuncName = "flat"
           /\ e.T.Anomaly[2].isAnomalyActive
           /\ e.T.T \notin {e.T.MeanTemperature,
                            RAdd(e.T.MeanTemperature, RInt(2))}

----------------------------------------------------------------------------
(* Claims about burst timing                                               *)

\* The case of C23: the plain trend with the linear function, a magnitude
\* above 0 and a start delay above 0, constructed switched on (a trend that
\* is Off before it has counted a burst was constructed Off or with
\* duration 0)
C23_Case ==
    LET a == heap[1]
    IN  /\ a.magFuncName = "linear" /\ RGreater(a.Magnitude, Zero)
        /\ a.startDelay > 0
        /\ ~(a.Off /\ a.countRepeats = 0)
        /\ calls >= 1

C26_TrendBurstCounters ==
    [][LET a == heap[1]
           b == heap'[1]
           n == IntDiv(a.duration, ts)
           active == ~a.Off /\ b.isAnomalyActive
           nth == active /\ a.elapsedActivatedIndex = n - 1
       IN  n >= 1 =>
             /\ 0 <= b.elapsedActivatedIndex /\ b.elapsedActivatedIndex < n
             /\ nth => /\ b.elapsedActivatedIndex = 0
                       /\ b.startDelayIndex = 0
                       /\ b.countRepeats = a.countRepeats + 1
             /\ ~nth => /\ b.countRepeats = a.countRepeats
                        /\ b.elapsedActivatedIndex >= a.elapsedActivatedIndex
                        /\ b.startDelayIndex >= a.startDelayIndex
                        /\ active => b.elapsedActivatedIndex
                                        = a.elapsedActivatedIndex + 1
             /\ active => b.elapsedActivatedTime
                             = a.elapsedActivatedIndex * ts]_vars

\* A trend with a delay and bursts of at least two ticks, just after the
\* call that completed its second burst
C26_Witness ==
    /\ IntDiv(heap[1].duration, ts) >= 2 /\ heap[1].startDelay >= 2
    /\ op.name = "stepAnomaly" /\ heap[1].isAnomalyActive
    /\ heap[1].countRepeats = 2
    /\ heap[1].elapsedActivatedIndex = 0 /\ heap[1].startDelayIndex = 0
    /\ heap[1].elapsedActivatedTime = (IntDiv(heap[1].duration, ts) - 1) * ts

\* C25: under SpecPair, for the spike and for the trend, a call of
\* stepAnomaly on an anomaly that is not Off and has repeats left is dormant
\* (it returns 0, leaves isAnomalyActive false, adds exactly 1 to
\* startDelayIndex and changes no other counter) iff startDelayIndex <
\* int(startDelay/ts) - 1 before the call.  A call that is not dormant finds
\* startDelayIndex at max(0, int(startDelay/ts) - 1) and leaves it there or,
\* when it counts a burst, resets it to 0: exactly that many dormant calls
\* precede the first burst and separate two consecutive bursts.
C25_DormantIffDelayPending ==
    [][\A i \in 1..2 :
        LET a == heap[i]
            b == heap'[i]
            gap == IntDiv(a.startDelay, ts) - 1
            dormant == /\ ret'.outs[i] = Zero
                       /\ ~b.isAnomalyActive
                       /\ b.startDelayIndex = a.startDelayIndex + 1
                       /\ b.elapsedActivatedIndex = a.elapsedActivatedIndex
                       /\ b.elapsedActivatedTime = a.elapsedActivatedTime
                       /\ b.countRepeats = a.countRepeats
                       /\ b.Off = a.Off
        IN  (~a.Off /\ (a.countRepeats < a.Repeats \/ a.Repeats = 0)) =>
              /\ dormant <=> a.startDelayIndex < gap
              /\ ~dormant =>
                   /\ a.startDelayIndex = (IF gap > 0 THEN gap ELSE 0)
                   /\ \/ b.startDelayIndex = a.startDelayIndex
                         /\ b.countRepeats = a.countRepeats
                      \/ b.startDelayIndex = 0
                         /\ b.countRepeats = a.countRepeats + 1]_vars

\* A spike and a trend in their second burst, each after two dormant calls
\* before the first burst and two more between the bursts
C25_Witness ==
    /\ op.name = "stepAnomaly"
    /\ \A i \in 1..2 :
        /\ IntDiv(heap[i].startDelay, ts) - 1 = 2
        /\ heap[i].countRepeats = 1
        /\ heap[i].startDelayIndex = 2
        /\ heap[i].isAnomalyActive

\* C27: under SpecTrend, every burst of a trend with duration > 0 is over
\* after at most max(1, int(duration/ts)) consecutive active calls, for
\* every constant tick period (ts > duration included): the number of active
\* calls of the burst in progress, elapsedActivatedIndex, stays below
\* max(1, int(duration/ts)) after every call, because the call that would
\* reach it counts the burst and resets the index to 0.
C27_BurstBoundedByDuration ==
    LET n == IntDiv(heap[1].duration, ts)
    IN  heap[1].duration > 0 =>
            heap[1].elapsedActivatedIndex < (IF n > 1 THEN n ELSE 1)

\* C28: under SpecPair, for a spike with a finite duration and
\* n = int(duration/ts) >= 1, the burst timing does not depend on the draws:
\* after every tick countRepeats, Off, startDelayIndex and
\* elapsedActivatedIndex of the spike equal those of the trend with the same
\* StartDelay, Duration, Repeats and Ts (the burst of the spike completes on
\* exactly its n-th active tick, whether or not spikes triggered).
C28_SpikeTimingAsTrend ==
    (heap[1].duration > 0 /\ IntDiv(heap[1].duration, ts) >= 1) =>
        /\ heap[1].countRepeats = heap[2].countRepeats
        /\ heap[1].Off = heap[2].Off
        /\ heap[1].startDelayIndex = heap[2].startDelayIndex
        /\ heap[1].elapsedActivatedIndex = heap[2].elapsedActivatedIndex

----------------------------------------------------------------------------
(* Claims about the draws of a spike                                       *)

\* C30: under SpecPair, on every tick on which the spike fires, the sign it
\* applies to its magnitude is +1 when SpikeSign = 1 and -1 when
\* SpikeSign = -1, for every uniform draw u of getSign (0 included); with
\* SpikeSign = 0 it is -1 exactly when u > 1/2 and +1 otherwise.
C30_SignFollowsSpikeSign ==
    (op.name = "stepAnomaly" /\ ret.draws >= 2) =>
        LET u == op.p.sign
            k == heap[1].spikeSign
            sign == IF k = RInt(1) THEN 1
                    ELSE IF k = RInt(-1) THEN -1
                    ELSE IF RGreater(u, Rat(1, 2)) THEN -1 ELSE 1
        IN  ret.outs[1] = RMul(heap[1].Magnitude, RInt(sign))

\* C29: under SpecSpike, on an active tick (the spike is not Off, has
\* repeats left and its delay has passed) the spike takes one uniform draw u
\* for the trigger.  With t the elapsed time of the tick and p its
\* probability (Probability, or |probFunction(t, Probability, duration)|
\* when a probability function is set): if u > p it returns 0 after that one
\* draw; otherwise it returns base * sign * g, where base is Magnitude (or
\* magFunction(t, Magnitude, duration) when a magnitude function is set),
\* sign is +1 or -1 and comes from one further uniform draw, and g is one
\* normal draw when VaryMagnitude is set (three draws in all) and 1
\* otherwise (two draws in all).
C29_SpikeDraws ==
    [][LET a == heap[1]
           d == op'.p
           active == /\ ~a.Off
                     /\ a.countRepeats < a.Repeats \/ a.Repeats = 0
                     /\ a.startDelayIndex >= IntDiv(a.startDelay, ts) - 1
           t == a.elapsedActivatedIndex * ts
           p == IF a.probFuncName = "" THEN a.probability
                ELSE RAbs(Apply(a.probFuncName, t, a.probability, a.duration))
           base == IF a.magFuncName = "" THEN a.Magnitude
                   ELSE Apply(a.magFuncName, t, a.Magnitude, a.duration)
           sign == getSign(a, d.sign)
           g == IF a.VaryMagnitude THEN d.norm ELSE RInt(1)
       IN  active =>
             IF RGreater(d.trig, p)
             THEN ret'.value = Zero /\ ret'.draws = 1
             ELSE /\ sign \in {RInt(1), RInt(-1)}
                  /\ ret'.value = RMul(RMul(base, sign), g)
                  /\ ret'.draws = (IF a.VaryMagnitude THEN 3 ELSE 2)]_vars

\* A spike with a magnitude function, a probability function and
\* VaryMagnitude that fired on its second active tick with a negative sign:
\* three draws, and the value is linear(t) * (-1) * (the normal draw 2)
C29_Witness ==
    /\ op.name = "stepAnomaly" /\ ret.draws = 3
    /\ heap[1].magFuncName = "linear" /\ heap[1].probFuncName = "linear"
    /\ heap[1].VaryMagnitude /\ heap[1].duration = MaxDuration - 2
    /\ heap[1].elapsedActivatedTime = 1 /\ ts = 1
    /\ op.p.trig = Zero /\ op.p.sign = Rat(3, 4) /\ op.p.norm = RInt(2)
    /\ heap[1].spikeSign = Zero
    /\ ret.value = Rat(-4, 3)

----------------------------------------------------------------------------
(* Claims about the shaping functions                                      *)

\* C24: under SpecFuncs, for every t >= 0, amplitude A and period T > 0,
\* linear(t, A, T) = (A/T)*t (so linear(T, A, T) = A), parabolic(t, A, T) =
\* A*(t/T)^2, step(t, A, T) = 0 if (t mod T) < T/2 else A, impulse(t, A, T) =
\* A if (t mod T) < 1e-6 else 0, and flat(t, A, T) = A; the value depends on
\* the arguments only, whatever was called before, and the call leaves the
\* state of the package (the value held by the random walk) as it was.
C24_ClosedForms ==
    [][LET t == op'.p.t
           A == op'.p.A
           T == op'.p.T
           y == ret'.value
       IN  /\ op'.name = "linear" =>
                /\ y = Rat(A.n * t, A.d * T)
                /\ t = T => y = A
           /\ op'.name = "parabolic" => y = Rat(A.n * t * t, A.d * T * T)
           /\ op'.name = "step" => y = (IF 2 * (t % T) < T THEN Zero ELSE A)
           /\ op'.name = "impulse" =>
                y = (IF (t % T) * 1000000 < 1 THEN A ELSE Zero)
           /\ op'.name = "flat" => y = A
           /\ op'.name \in {"linear", "parabolic", "step", "impulse", "flat"}
                => previousValue' = previousValue]_vars

\* The step function called at the half period, after a call of the random
\* walk that moved the value it holds: it returns A
C24_Witness ==
    /\ op.name = "step" /\ op.p.T = 4 /\ op.p.t = 2
    /\ ret.value = op.p.A
    /\ previousValue # Zero

----------------------------------------------------------------------------
(* Claims about the observable state of an anomaly                         *)

\* C31: under SpecPair (anomalies that are constructed and then only
\* stepped), GetIsAnomalyActive() is true after a call of stepAnomaly iff
\* the call was an active tick (trend) or an active tick whose trigger draw
\* did not exceed the probability (spike); it is false after a dormant tick
\* and after the call that finds the repeats used up; a call that returns a
\* value other than 0 leaves it true; and it is false whenever Off is true.
C31_ActiveFlag ==
    [][\A i \in 1..2 :
        LET a == heap[i]
            b == heap'[i]
            left == a.countRepeats < a.Repeats \/ a.Repeats = 0
            tick == /\ ~a.Off /\ left
                    /\ a.startDelayIndex >= IntDiv(a.startDelay, ts) - 1
            fired == tick /\ ~RGreater(op'.p.trig, a.probability)
        IN  /\ b.isAnomalyActive <=> (IF a.typeName = "trend" THEN tick
                                      ELSE fired)
            /\ (~a.Off /\ ~left) => (b.Off /\ ~b.isAnomalyActive)
            /\ ret'.outs[i] # Zero => b.isAnomalyActive
            /\ b.Off => ~b.isAnomalyActive]_vars

\* A tick on which the trend is active and the spike, inside its burst, did
\* not trigger: the flag of the trend is true, that of the spike false
C31_Witness ==
    /\ op.name = "stepAnomaly" /\ op.p.trig = Rat(3, 4)
    /\ heap[2].isAnomalyActive /\ ret.outs[2] # Zero
    /\ ~heap[1].isAnomalyActive /\ ~heap[1].Off
    /\ heap[1].elapsedActivatedIndex >= 2


\* C32: under SpecPeriod, for a trend whose PeriodDuration was given as 0,
\* the period passed to the shaping function on every active tick is the
\* duration the trend has at that tick, whatever SetDuration and
\* SetPeriodDuration(0) calls were made before stepping: the value returned
\* is that of the function with the duration as its period.
C32_PeriodFollowsDuration ==
    (op.name = "stepAnomaly" /\ heap[1].isAnomalyActive) =>
        /\ heap[1].periodDuration = heap[1].duration
        /\ ret.value = Apply(heap[1].magFuncName,
                             heap[1].elapsedActivatedTime,
                             heap[1].Magnitude, heap[1].duration)


----------------------------------------------------------------------------
(* Claims about the three-phase step                                       *)

\* C33: after every stepThreePhase call the phase accumulator pAngle lies
\* in [-pi, pi], whatever the advance of the tick (negative, or above
\* 2*pi), starting from pAngle = 0.
C33_AngleInRange ==
    RLeq(RNeg(Pi), pAngle) /\ RLeq(pAngle, Pi)

\* What the containers give when each is stepped once, with the generator
\* and the state outside handed from one to the next: prev holds the
\* results so far, c is the next container
InOrderNext(prev, c, r, env, Ts) ==
    Append(prev, RunContainer(c, IF prev = <<>> THEN r ELSE prev[Len(prev)].r,
                              IF prev = <<>> THEN env ELSE prev[Len(prev)].env,
                              Ts))

InOrder(e, r, env, Ts) ==
    InOrderNext(
        InOrderNext(
            InOrderNext(
                InOrderNext(
                    InOrderNext(<<>>, e.FreqAnomaly, r, env, Ts),
                    e.PosSeqAngAnomaly, r, env, Ts),
                e.PosSeqMagAnomaly, r, env, Ts),
            e.PhaseAMagAnomaly, r, env, Ts),
        e.HarmonicsAnomaly, r, env, Ts)

\* The positive sequence phase and the effective positive sequence
\* magnitude of a tick that took the emulation from e to w, m being what
\* the containers gave
PhaseOf(w, m) ==
    RAdd(RAdd(w.PhaseOffset, w.pAngle), RMul(m[2].value, Rat(1, 180)))

EffectiveOf(e, w, m) ==
    RAdd(RAdd(w.PosSeqMag, IF e.FaultRemainingSamples > 0
                           THEN e.FaultPosSeqMag ELSE Zero),
         m[3].value)

C34_Outputs(e, w, r2, m) ==
    /\ w.FreqAnomaly = m[1].c
    /\ w.PosSeqAngAnomaly = m[2].c
    /\ w.PosSeqMagAnomaly = m[3].c
    /\ w.PhaseAMagAnomaly = m[4].c
    /\ w.HarmonicsAnomaly = m[5].c
    /\ r2 = [m[5].r EXCEPT !.n = @ + 3]
    /\ w.A = phaseOutput(w, PhaseOf(w, m), Zero, EffectiveOf(e, w, m),
                         m[4].value, m[5], 0)
    /\ w.B = phaseOutput(w, PhaseOf(w, m), RNeg(TwoPiOverThree),
                         EffectiveOf(e, w, m), Zero, m[5], 1)
    /\ w.C = phaseOutput(w, PhaseOf(w, m), TwoPiOverThree,
                         EffectiveOf(e, w, m), Zero, m[5], 2)

\* C34: each call of stepThreePhase steps the five containers once each,
\* in the order FreqAnomaly, PosSeqAngAnomaly, PosSeqMagAnomaly,
\* PhaseAMagAnomaly, HarmonicsAnomaly (the generator goes from one to the
\* next), then takes exactly three normal draws, for the noise of A, of B
\* and of C in that order, whether or not a fault is active, a ramp is in
\* progress or harmonics are configured.
C34_ContainersInOrder ==
    [][op'.name = "stepThreePhase" =>
        C34_Outputs(emu[1].V, emu'[1].V, emu'[1].r,
                    InOrder(emu[1].V, emu[1].r,
                            [previousValue |-> previousValue, u |-> Zero,
                             norm |-> Zero], op'.Ts))]_vars

\* A step during a fault and a ramp, without harmonics, in which the five
\* spikes are in their bursts and at least one of them triggered
C34_Witness ==
    /\ op.name = "stepThreePhase"
    /\ Len(emu[1].V.FreqAnomaly) = 1 /\ Len(emu[1].V.PosSeqMagAnomaly) = 1
    /\ emu[1].V.HarmonicNumbers = <<>>
    /\ emu[1].V.FaultRemainingSamples = MaxEmulatedFaultDurationSamples - 1
    /\ emu[1].V.PosSeqMag = RInt(11) /\ emu[1].V.PosSeqMagNew = RInt(12)
    /\ emu[1].V.HarmonicsAnomaly[1].isAnomalyActive
    /\ emu[1].r.n >= 9

\* The outputs of a tick that took the emulation from e to w when F is
\* what the fault adds to the ramped magnitude
C35_OutputsWith(w, m, F) ==
    /\ w.A = phaseOutput(w, PhaseOf(w, m), Zero,
                         RAdd(RAdd(w.PosSeqMag, F), m[3].value),
                         m[4].value, m[5], 0)
    /\ w.B = phaseOutput(w, PhaseOf(w, m), RNeg(TwoPiOverThree),
                         RAdd(RAdd(w.PosSeqMag, F), m[3].value), Zero,
                         m[5], 1)
    /\ w.C = phaseOutput(w, PhaseOf(w, m), TwoPiOverThree,
                         RAdd(RAdd(w.PosSeqMag, F), m[3].value), Zero,
                         m[5], 2)

\* C35: FaultRemainingSamples is never negative and goes down by exactly 1
\* on each call of stepThreePhase while it is positive.  StartEvent sets
\* FaultPosSeqMag = F and FaultRemainingSamples = N =
\* MaxEmulatedFaultDurationSamples; F is then part of the effective
\* positive sequence magnitude on the next N steps (ts, the number of steps
\* since the event, is below N) and on no later step.
C35_FaultCountdown ==
    [][/\ emu'[1].V.FaultRemainingSamples >= 0
       /\ op'.name = "StartEvent" =>
            /\ emu'[1].V.FaultRemainingSamples =
                   MaxEmulatedFaultDurationSamples
            /\ emu'[1].V.FaultPosSeqMag =
                   RMul(emu[1].V.PosSeqMag,
                        IF op'.key = "OverVoltage" THEN Rat(1, 5)
                        ELSE Rat(-1, 5))
       /\ op'.name = "stepThreePhase" =>
            /\ emu'[1].V.FaultRemainingSamples =
                   IF emu[1].V.FaultRemainingSamples > 0
                   THEN emu[1].V.FaultRemainingSamples - 1 ELSE 0
            /\ emu'[1].V.FaultPosSeqMag = emu[1].V.FaultPosSeqMag
            /\ C35_OutputsWith(
                   emu'[1].V,
                   InOrder(emu[1].V, emu[1].r,
                           [previousValue |-> previousValue, u |-> Zero,
                            norm |-> Zero], op'.Ts),
                   IF /\ emu[1].V.FaultPosSeqMag # Zero
                      /\ ts < MaxEmulatedFaultDurationSamples
                   THEN emu[1].V.FaultPosSeqMag ELSE Zero)]_vars

\* The first step after the last step of a fault: the countdown is 0 and
\* the output no longer holds the fault magnitude
C35_Witness ==
    /\ op.name = "stepThreePhase"
    /\ emu[1].V.FaultPosSeqMag = RInt(-2)
    /\ emu[1].V.FaultRemainingSamples = 0
    /\ ts = MaxEmulatedFaultDurationSamples + 1
    /\ emu[1].V.A # SZero

\* C38: each call of stepThreePhase changes PosSeqMag by 0 or by exactly
\* PosSeqMagRampRate, the distance |PosSeqMagNew - PosSeqMag| does not grow
\* from one tick to the next, and once it is below |PosSeqMagRampRate| the
\* magnitude stays as it is.
C38_RampTowardsTarget ==
    [][op'.name = "stepThreePhase" =>
        LET e == emu[1].V
            w == emu'[1].V
        IN  /\ w.PosSeqMag \in {e.PosSeqMag,
                                RAdd(e.PosSeqMag, e.PosSeqMagRampRate)}
            /\ RLeq(RAbs(RSub(w.PosSeqMagNew, w.PosSeqMag)),
                    RAbs(RSub(e.PosSeqMagNew, e.PosSeqMag)))
            /\ RLess(RAbs(RSub(e.PosSeqMagNew, e.PosSeqMag)),
                     RAbs(e.PosSeqMagRampRate)) =>
                   w.PosSeqMag = e.PosSeqMag]_vars

\* The harmonics of one phase, from the i-th to the n-th, when the
\* magnitude of a harmonic is HarmonicMags[i] times mag
RECURSIVE HarmonicsOfMag(_, _, _, _, _, _)
HarmonicsOfMag(w, phase, shift, mag, i, n) ==
    IF i > n THEN SZero
    ELSE SAdd(SScale(Sin(RAdd(RMul(RInt(w.HarmonicNumbers[i]),
                                   RAdd(phase, shift)),
                              w.HarmonicAngs[i])),
                     RMul(w.HarmonicMags[i], mag)),
              HarmonicsOfMag(w, phase, shift, mag, i + 1, n))

\* One output when the harmonics are taken from the effective magnitude
\* eff and scaled by 1 + the HarmonicsAnomaly delta
C39_Output(w, m, shift, eff, extra, k) ==
    SAdd(SAdd(sequences(w, PhaseOf(w, m), shift, eff, extra),
              SScale(HarmonicsOfMag(w, PhaseOf(w, m), shift, eff, 1,
                                    Len(w.HarmonicNumbers)),
                     RAdd(RInt(1), m[5].value))),
         noise(w, m[5].r, k))

C39_Outputs(e, w, m) ==
    /\ w.A = C39_Output(w, m, Zero, EffectiveOf(e, w, m), m[4].value, 0)
    /\ w.B = C39_Output(w, m, RNeg(TwoPiOverThree), EffectiveOf(e, w, m),
                        Zero, 1)
    /\ w.C = C39_Output(w, m, TwoPiOverThree, EffectiveOf(e, w, m), Zero, 2)

\* C39: in a call of stepThreePhase on an emulation whose harmonic arrays
\* have the same length, the magnitude of the i-th harmonic is
\* HarmonicMags[i] times the effective positive sequence magnitude of the
\* tick (ramped magnitude + fault offset while a fault is active +
\* PosSeqMagAnomaly delta), and the harmonic sums are multiplied by
\* 1 + the HarmonicsAnomaly delta of the tick.
C39_HarmonicsOfEffectiveMagnitude ==
    [][(/\ op'.name = "stepThreePhase"
        /\ Len(emu[1].V.HarmonicNumbers) > 0
        /\ Len(emu[1].V.HarmonicNumbers) = Len(emu[1].V.HarmonicMags)
        /\ Len(emu[1].V.HarmonicNumbers) = Len(emu[1].V.HarmonicAngs)) =>
        C39_Outputs(emu[1].V, emu'[1].V,
                    InOrder(emu[1].V, emu[1].r,
                            [previousValue |-> previousValue, u |-> Zero,
                             norm |-> Zero], op'.Ts))]_vars

\* One output when the harmonics are taken from the ramped magnitude
\* w.PosSeqMag and the positive sequence from the effective magnitude eff
C39_OutputRamped(w, m, shift, eff, extra, k) ==
    SAdd(SAdd(sequences(w, PhaseOf(w, m), shift, eff, extra),
              SScale(HarmonicsOfMag(w, PhaseOf(w, m), shift, w.PosSeqMag, 1,
                                    Len(w.HarmonicNumbers)),
                     RAdd(RInt(1), m[5].value))),
         noise(w, m[5].r, k))

C39_OutputsRamped(e, w, m) ==
    /\ w.A = C39_OutputRamped(w, m, Zero, EffectiveOf(e, w, m), m[4].value, 0)
    /\ w.B = C39_OutputRamped(w, m, RNeg(TwoPiOverThree),
                              EffectiveOf(e, w, m), Zero, 1)
    /\ w.C = C39_OutputRamped(w, m, TwoPiOverThree, EffectiveOf(e, w, m),
                              Zero, 2)

\* C39, amended: with harmonic arrays of the same length the magnitude of
\* the i-th harmonic is HarmonicMags[i] times the ramped magnitude
\* PosSeqMag of the tick, without the fault offset and without the
\* PosSeqMagAnomaly delta; the harmonic sums are multiplied by 1 + the
\* HarmonicsAnomaly delta of the tick.
C39_HarmonicsOfRampedMagnitude ==
    [][(/\ op'.name = "stepThreePhase"
        /\ Len(emu[1].V.HarmonicNumbers) > 0
        /\ Len(emu[1].V.HarmonicNumbers) = Len(emu[1].V.HarmonicMags)
        /\ Len(emu[1].V.HarmonicNumbers) = Len(emu[1].V.HarmonicAngs)) =>
        C39_OutputsRamped(emu[1].V, emu'[1].V,
                          InOrder(emu[1].V, emu[1].r,
                                  [previousValue |-> previousValue,
                                   u |-> Zero, norm |-> Zero], op'.Ts))]_vars

\* The first step of a fault on an emulation with two harmonics, in which
\* the spikes of PosSeqMagAnomaly and of HarmonicsAnomaly triggered
C39_Witness ==
    /\ op.name = "stepThreePhase"
    /\ Len(emu[1].V.HarmonicNumbers) = 2
    /\ emu[1].V.FaultPosSeqMag # Zero
    /\ emu[1].V.FaultRemainingSamples = MaxEmulatedFaultDurationSamples - 1
    /\ Len(emu[1].V.PosSeqMagAnomaly) = 1
    /\ emu[1].V.PosSeqMagAnomaly[1].isAnomalyActive
    /\ emu[1].V.HarmonicsAnomaly[1].isAnomalyActive
    /\ emu[1].V.A # SZero


----------------------------------------------------------------------------
(* Claims about Emulator.Step                                              *)

\* The generator after the optional step of a three-phase emulation p
\* that started with the generator r
GeneratorAfter(p, r, f, Ts) ==
    IF p = <<>> THEN r
    ELSE stepThreePhase(p[1], r, f, Ts,
                        [previousValue |-> previousValue, u |-> Zero,
                         norm |-> Zero]).r

\* The sag emulation and the generator of w are those of stepSag called
\* with the generator rT, or rT itself and no sag emulation
C37_Sag(e, w, seed, rT) ==
    IF e.Sag = <<>> THEN w.Sag = <<>> /\ w.r = rT
    ELSE /\ w.Sag = <<stepSag(e.Sag[1], rT, seed).g>>
         /\ w.r = stepSag(e.Sag[1], rT, seed).r

\* The temperature emulation of w is that of e stepped with the generator
\* rI, the sag emulation comes after it
C37_Temperature(e, w, seed, rI) ==
    IF e.T = <<>> THEN w.T = <<>> /\ C37_Sag(e, w, seed, rI)
    ELSE /\ w.T = <<stepTemperature(e.T[1], rI, e.Ts,
                                    [previousValue |-> previousValue,
                                     u |-> Zero, norm |-> Zero]).t>>
         /\ C37_Sag(e, w, seed,
                    stepTemperature(e.T[1], rI, e.Ts,
                                    [previousValue |-> previousValue,
                                     u |-> Zero, norm |-> Zero]).r)

\* The current emulation of w is that of e stepped with the generator rV
C37_Current(e, w, f, seed, rV) ==
    /\ w.I = IF e.I = <<>> THEN <<>>
             ELSE <<stepThreePhase(e.I[1], rV, f, e.Ts,
                                   [previousValue |-> previousValue,
                                    u |-> Zero, norm |-> Zero]).e>>
    /\ C37_Temperature(e, w, seed, GeneratorAfter(e.I, rV, f, e.Ts))

\* The voltage emulation of w is that of e stepped with the generator of e
C37_Voltage(e, w, f, seed) ==
    /\ w.V = IF e.V = <<>> THEN <<>>
             ELSE <<stepThreePhase(e.V[1], e.r, f, e.Ts,
                                   [previousValue |-> previousValue,
                                    u |-> Zero, norm |-> Zero]).e>>
    /\ C37_Current(e, w, f, seed, GeneratorAfter(e.V, e.r, f, e.Ts))

\* C37: a call of Emulator.Step steps each sub-emulation that is set
\* exactly once, in the order V, I, T, Sag, each with the tick period Ts of
\* the emulator and with its generator as the one before left it, and
\* leaves those that are nil alone; afterwards 0 <= SmpCnt < SamplingRate,
\* SmpCnt being one more than before or 0 where that reaches SamplingRate.
C37_StepOrder ==
    [][op'.name = "Step" =>
        /\ C37_Voltage(emu[1], emu'[1], ret'.value, ts')
        /\ emu'[1].SmpCnt >= 0 /\ emu'[1].SmpCnt < emu'[1].SamplingRate
        /\ emu'[1].SmpCnt = IF emu[1].SmpCnt + 1 = emu[1].SamplingRate
                            THEN 0 ELSE emu[1].SmpCnt + 1]_vars

\* The third step of an emulator with all four sub-emulations and a
\* sampling rate of 3: SmpCnt is back at 0, the spike of the current
\* emulation has triggered
C37_Witness ==
    /\ op.name = "Step"
    /\ emu[1].V # <<>> /\ emu[1].I # <<>> /\ emu[1].T # <<>>
    /\ emu[1].Sag # <<>>
    /\ emu[1].SamplingRate = 3 /\ emu[1].SmpCnt = 0
    /\ Len(emu[1].trace) = 3
    /\ emu[1].I[1].PhaseAMagAnomaly[1].isAnomalyActive
    /\ emu[1].Sag[1].TotalStrain # Zero

\* The deviation that a frequency event sets
DeviationOf(eventType) ==
    IF eventType = "OverFrequency" THEN Rat(1, 10) ELSE Rat(-1, 10)

\* C36: after StartEvent(OverFrequency) or StartEvent(UnderFrequency),
\* the next N = MaxEmulatedFrequencyDurationSamples calls of Emulator.Step
\* hand Fnom + 0.1 or Fnom - 0.1 to the sub-emulations; the last of them
\* sets Fdeviation back to 0, every later call hands Fnom on, and
\* fDeviationRemainingSamples is never negative.  Before the first event
\* every call hands Fnom on.
C36_FrequencyEvent ==
    LET e == emu[1]
        N == MaxEmulatedFrequencyDurationSamples
    IN  /\ e.fDeviationRemainingSamples >= 0
        /\ e.event = <<>> =>
             /\ e.Fdeviation = Zero
             /\ \A k \in 1..Len(e.trace) : e.trace[k] = e.Fnom
        /\ e.event # <<>> =>
             /\ \A k \in (e.event[2] + 1)..Len(e.trace) :
                   e.trace[k] = IF k - e.event[2] <= N
                                THEN RAdd(e.Fnom, DeviationOf(e.event[1]))
                                ELSE e.Fnom
             /\ e.Fdeviation = IF Len(e.trace) - e.event[2] >= N
                               THEN Zero ELSE DeviationOf(e.event[1])
             /\ e.fDeviationRemainingSamples =
                    IF Len(e.trace) - e.event[2] >= N THEN 0
                    ELSE N - (Len(e.trace) - e.event[2])

\* The step after the last step of an under-frequency event: the voltage
\* emulation was handed Fnom again
C36_Witness ==
    /\ op.name = "Step"
    /\ emu[1].event # <<>> /\ emu[1].event[1] = "UnderFrequency"
    /\ Len(emu[1].trace) =
           emu[1].event[2] + MaxEmulatedFrequencyDurationSamples + 1
    /\ emu[1].trace[Len(emu[1].trace)] = emu[1].Fnom
    /\ emu[1].trace[Len(emu[1].trace) - 1] = Rat(-1, 12)
    /\ emu[1].Fdeviation = Zero
    /\ emu[1].V # <<>>


----------------------------------------------------------------------------
(* Claims about anomalies in more than one container                       *)

\* C40: the timing counters of a member of a container are changed only by
\* stepping that container: an operation on the other container (op.p is
\* the container operated on) leaves them as they are, also where the same
\* anomaly was added to both.
C40_OtherContainerUntouched ==
    [][op'.name \in {"StepAll", "AddAnomaly"} =>
        \A i \in 1..Len(container[3 - op'.p]) :
            Timing(heap'[container[3 - op'.p][i]]) =
                Timing(heap[container[3 - op'.p][i]])]_vars

=============================================================================
